---- MODULE Spec2Model ----
(***************************************************************************)
(* Identity, authorization and tenant-isolation core of TabletsV2:         *)
(* bearer-token lifecycle (login, refresh rotation, logout), the login     *)
(* rate limiter, the role -> permission engine and the company context.    *)
(* Time is counted in minutes.                                             *)
(***************************************************************************)
EXTENDS Integers, Sequences, FiniteSets, TLC

VARIABLES
    users,            \* users table: user id -> row
    refresh_tokens,   \* refresh_tokens table: set of rows
    uuid_next,        \* supply of uuid4() values for token_id
    issued,           \* raw tokens handed to clients so far
    attempts,         \* RateLimiter._attempts: phone -> list of timestamps
    now,              \* datetime.now(timezone.utc), in minutes
    resp,             \* outcome of the last call
    redeemed,         \* history: token_ids a refresh call has redeemed
    login_ids,        \* history: user id -> token_ids issued by its logins, in order
    calls,            \* concurrent refresh calls in flight: worker -> frame
    subject,          \* the identity (or other input) of the current request
    answer,           \* result of the last authorization / tenant query
    lim_calls,        \* history: phone -> check_rate_limit calls since its last reset
    logged_out,       \* history: token_ids that logout revoked
    password_changed, \* history: token_ids issued to a user before it changed its password
    products          \* products table: set of rows

vars == << users, refresh_tokens, uuid_next, issued, attempts, now, resp,
           redeemed, login_ids, calls, subject, answer, lim_calls, logged_out,
           password_changed, products >>

-----------------------------------------------------------------------------
(* Configuration (core/config.py) *)

ACCESS_TOKEN_EXPIRE_MINUTES == 30
REFRESH_TOKEN_EXPIRE_DAYS == 30
LOGIN_RATE_LIMIT_ATTEMPTS == 5
LOGIN_RATE_LIMIT_WINDOW_MINUTES == 60
PASSWORD_MIN_LENGTH == 8
PASSWORD_MAX_LENGTH == 128   \* the literal in validate_password_strength

MinutesPerDay == 24 * 60
RefreshTTL == REFRESH_TOKEN_EXPIRE_DAYS * MinutesPerDay

(* Bounds of the model *)
MaxTokens == 2        \* uuid4() values drawn in one run of sequential calls
MaxRaceTokens == 3    \* uuid4() values drawn in one run of interleaved calls
MaxLongTicks == 2     \* clock steps of one refresh-token lifetime
MaxShortTicks == 2    \* clock steps of half a limiter window
MaxLimCalls == 8      \* limiter calls (check_rate_limit, reset) recorded per phone
MaxCore == 3          \* characters of a password other than its padding

LongStep == RefreshTTL
ShortStep == LOGIN_RATE_LIMIT_WINDOW_MINUTES \div 2

NoTime == -1          \* a NULL timestamp column
NoId == 0             \* no token_id
NoUser == "none"      \* a lookup that found no row

-----------------------------------------------------------------------------
(* Phone numbers: strings as sequences of characters *)

PhoneChars == {"+", "7", "1", "2", "9"}

normalize_phone_number(phone) ==
    LET cleaned == SelectSeq(phone, LAMBDA c : c \in PhoneChars)
    IN  IF cleaned # << >> THEN cleaned ELSE phone

Phone1 == << "7", "1" >>
Phone2 == << "7", "2" >>
PhoneX == << "+", "7", "9" >>
RawPhones == { Phone1, << "7", " ", "1" >>, Phone2, PhoneX }
NormPhones == { normalize_phone_number(p) : p \in RawPhones }

(* Passwords *)
hash_password(password) == << "bcrypt", password >>
verify_password(plain_password, hashed_password) ==
    hashed_password = hash_password(plain_password)

Passwords == { "Passw0rd1", "Wr0ngPass" }

-----------------------------------------------------------------------------
(* JWT codec (core/security.py) *)

create_access_token(user_id, phone_number, is_active, company_id, role, t) ==
    [ sig |-> "HS256", type |-> "access", user_id |-> user_id,
      phone_number |-> phone_number, is_active |-> is_active,
      company_id |-> company_id, role |-> role, token_id |-> NoId,
      iat |-> t, exp |-> t + ACCESS_TOKEN_EXPIRE_MINUTES ]

create_refresh_token(user_id, token_id, t) ==
    [ sig |-> "HS256", type |-> "refresh", user_id |-> user_id,
      token_id |-> token_id, iat |-> t, exp |-> t + RefreshTTL ]

MalformedToken == [ sig |-> "none" ]

\* jwt.decode: signature first, then the exp claim
jwt_decode(token, t) ==
    IF token.sig # "HS256" THEN "InvalidToken"
    ELSE IF token.exp <= t THEN "TokenExpired"
    ELSE "ok"

verify_refresh_token(token, t) ==
    IF jwt_decode(token, t) # "ok" THEN jwt_decode(token, t)
    ELSE IF token.type # "refresh" THEN "InvalidToken"
    ELSE "ok"

\* variant: the type claim is not looked at
verify_access_token_any_type(token, t) == jwt_decode(token, t)

verify_access_token(token, t) ==
    IF jwt_decode(token, t) # "ok" THEN jwt_decode(token, t)
    ELSE IF token.type # "access" THEN "InvalidToken"
    ELSE "ok"

hash_token(token) == << "hmac-sha256", token.user_id, token.token_id, token.iat >>

-----------------------------------------------------------------------------
(* RateLimiter (core/security.py) *)

RECURSIVE SeqMin(_)
SeqMin(s) ==
    IF Len(s) = 1 THEN s[1]
    ELSE LET m == SeqMin(Tail(s)) IN IF s[1] < m THEN s[1] ELSE m

Max(a, b) == IF a > b THEN a ELSE b

\* The result of check_rate_limit: whether the call passes, the stored list
\* afterwards, and retry_after (seconds) when it is rejected.
\* variant: the threshold compared with > instead of >=
check_rate_limit_above(att, phone_number, t) ==
    LET window_start == t - LOGIN_RATE_LIMIT_WINDOW_MINUTES
        cleaned == SelectSeq(att[phone_number], LAMBDA ts : ts > window_start)
    IN  IF Len(cleaned) > LOGIN_RATE_LIMIT_ATTEMPTS
        THEN [ ok |-> FALSE,
               attempts |-> [att EXCEPT ![phone_number] = cleaned],
               retry_after |-> Max((SeqMin(cleaned) - window_start) * 60, 60) ]
        ELSE [ ok |-> TRUE,
               attempts |-> [att EXCEPT ![phone_number] = Append(cleaned, t)],
               retry_after |-> 0 ]

\* variant: a call that passes leaves no record
check_rate_limit_lost(att, phone_number, t) ==
    LET window_start == t - LOGIN_RATE_LIMIT_WINDOW_MINUTES
        cleaned == SelectSeq(att[phone_number], LAMBDA ts : ts > window_start)
    IN  IF Len(cleaned) >= LOGIN_RATE_LIMIT_ATTEMPTS
        THEN [ ok |-> FALSE,
               attempts |-> [att EXCEPT ![phone_number] = cleaned],
               retry_after |-> Max((SeqMin(cleaned) - window_start) * 60, 60) ]
        ELSE [ ok |-> TRUE,
               attempts |-> [att EXCEPT ![phone_number] = cleaned],
               retry_after |-> 0 ]

\* variant: a refused call is recorded as an attempt too
check_rate_limit_refused_recorded(att, phone_number, t) ==
    LET window_start == t - LOGIN_RATE_LIMIT_WINDOW_MINUTES
        cleaned == SelectSeq(att[phone_number], LAMBDA ts : ts > window_start)
    IN  IF Len(cleaned) >= LOGIN_RATE_LIMIT_ATTEMPTS
        THEN [ ok |-> FALSE,
               attempts |-> [att EXCEPT ![phone_number] = Append(cleaned, t)],
               retry_after |-> Max((SeqMin(cleaned) - window_start) * 60, 60) ]
        ELSE [ ok |-> TRUE,
               attempts |-> [att EXCEPT ![phone_number] = Append(cleaned, t)],
               retry_after |-> 0 ]

check_rate_limit(att, phone_number, t) ==
    LET window_start == t - LOGIN_RATE_LIMIT_WINDOW_MINUTES
        cleaned == SelectSeq(att[phone_number], LAMBDA ts : ts > window_start)
    IN  IF Len(cleaned) >= LOGIN_RATE_LIMIT_ATTEMPTS
        THEN [ ok |-> FALSE,
               attempts |-> [att EXCEPT ![phone_number] = cleaned],
               retry_after |-> Max((SeqMin(cleaned) - window_start) * 60, 60) ]
        ELSE [ ok |-> TRUE,
               attempts |-> [att EXCEPT ![phone_number] = Append(cleaned, t)],
               retry_after |-> 0 ]

\* variant: the attempts of the phone number are kept
reset_kept(att, phone_number) == att

reset(att, phone_number) == [att EXCEPT ![phone_number] = << >>]

-----------------------------------------------------------------------------
(* Repositories (features/auth/repository.py) *)

get_by_phone(phone_number) ==
    IF \E u \in DOMAIN users : users[u].phone_number = phone_number
    THEN CHOOSE u \in DOMAIN users : users[u].phone_number = phone_number
    ELSE NoUser

get_by_id(user_id) == IF user_id \in DOMAIN users THEN user_id ELSE NoUser

update_last_login(tbl, user_id, t) ==
    [ u \in DOMAIN tbl |->
        IF u = user_id THEN [tbl[u] EXCEPT !.last_login_at = t] ELSE tbl[u] ]

\* variant: the INSERT is lost
create_lost(tbl, user_id, token_id, token_hash, expires_at, t) == tbl

create(tbl, user_id, token_id, token_hash, expires_at, t) ==
    tbl \cup { [ user_id |-> user_id, token_id |-> token_id,
                 token_hash |-> token_hash, expires_at |-> expires_at,
                 created_at |-> t, revoked_at |-> NoTime ] }

\* variant: the lookup without the revoked_at filter
get_by_token_id_any(tbl, token_id) == { r \in tbl : r.token_id = token_id }

get_by_token_id(tbl, token_id) ==
    { r \in tbl : r.token_id = token_id /\ r.revoked_at = NoTime }

\* variant: the UPDATE matches no row
revoke_none(tbl, token_id, t) == tbl

revoke(tbl, token_id, t) ==
    { IF r.token_id = token_id THEN [r EXCEPT !.revoked_at = t] ELSE r : r \in tbl }

\* variant: the bulk UPDATE matches no row
revoke_all_for_user_none(tbl, user_id, t) == tbl

revoke_all_for_user(tbl, user_id, t) ==
    { IF r.user_id = user_id /\ r.revoked_at = NoTime
      THEN [r EXCEPT !.revoked_at = t] ELSE r : r \in tbl }

expired_rows(tbl, t) == { r \in tbl : r.expires_at < t }

\* variant: the sweep also removes the revoked records
delete_expired_and_revoked(tbl, t) ==
    { r \in tbl : ~(r.expires_at < t) /\ r.revoked_at = NoTime }

delete_expired(tbl, t) == tbl \ expired_rows(tbl, t)

-----------------------------------------------------------------------------
(* AuthService (features/auth/auth_services.py) *)

\* _generate_token_pair: the pair and the table after the insert
generate_token_pair(tbl, user_id, token_id, t) ==
    LET access_token == create_access_token(user_id, users[user_id].phone_number,
                            users[user_id].is_active, users[user_id].company_id,
                            users[user_id].role, t)
        refresh_token == create_refresh_token(user_id, token_id, t)
    IN  [ access_token |-> access_token,
          refresh_token |-> refresh_token,
          table |-> create(tbl, user_id, token_id, hash_token(refresh_token),
                           t + RefreshTTL, t) ]

Resp(op, outcome, user, presented, new_id, retry_after) ==
    [ op |-> op, outcome |-> outcome, user |-> user, presented |-> presented,
      new_id |-> new_id, retry_after |-> retry_after ]

\* variant: an unknown phone number reported as such
login_outcome_user_not_found(normalized_phone, password, lim) ==
    LET user == get_by_phone(normalized_phone)
    IN  IF ~lim.ok THEN "RateLimitExceeded"
        ELSE IF user = NoUser THEN "UserNotFound"
        ELSE IF ~verify_password(password, users[user].hashed_password)
             THEN "InvalidCredentials"
        ELSE IF ~users[user].is_active THEN "AccountDeactivated"
        ELSE "ok"

\* variant: the active flag is looked at before the password
login_outcome_active_first(normalized_phone, password, lim) ==
    LET user == get_by_phone(normalized_phone)
    IN  IF ~lim.ok THEN "RateLimitExceeded"
        ELSE IF user = NoUser THEN "InvalidCredentials"
        ELSE IF ~users[user].is_active THEN "AccountDeactivated"
        ELSE IF ~verify_password(password, users[user].hashed_password)
             THEN "InvalidCredentials"
        ELSE "ok"

\* What login returns or raises, before any store is written
login_outcome(normalized_phone, password, lim) ==
    LET user == get_by_phone(normalized_phone)
    IN  IF ~lim.ok THEN "RateLimitExceeded"
        ELSE IF user = NoUser THEN "InvalidCredentials"
        ELSE IF ~verify_password(password, users[user].hashed_password)
             THEN "InvalidCredentials"
        ELSE IF ~users[user].is_active THEN "AccountDeactivated"
        ELSE "ok"

Login(phone_number, password) ==
    LET normalized_phone == normalize_phone_number(phone_number)
        lim == check_rate_limit(attempts, normalized_phone, now)
        outcome == login_outcome(normalized_phone, password, lim)
        user == get_by_phone(normalized_phone)
    IN  IF outcome = "ok"
        THEN /\ uuid_next <= MaxTokens
             /\ LET revoked == revoke_all_for_user(refresh_tokens, user, now)
                    pair == generate_token_pair(revoked, user, uuid_next, now)
                IN  /\ attempts' = reset(lim.attempts, normalized_phone)
                    /\ refresh_tokens' = pair.table
                    /\ issued' = issued \cup { pair.access_token, pair.refresh_token }
                    /\ users' = update_last_login(users, user, now)
                    /\ uuid_next' = uuid_next + 1
                    /\ login_ids' = [login_ids EXCEPT ![user] = Append(@, uuid_next)]
                    /\ resp' = Resp("login", "ok", user,
                                    << normalized_phone, password >>, uuid_next, 0)
             /\ UNCHANGED << now, redeemed, calls, subject, answer, lim_calls, logged_out, password_changed,
                    products >>
        ELSE /\ attempts' = lim.attempts
             /\ resp' = Resp("login", outcome, NoUser,
                             << normalized_phone, password >>, NoId, lim.retry_after)
             /\ UNCHANGED << users, refresh_tokens, uuid_next, issued, now, redeemed,
                             login_ids, calls, subject, answer, lim_calls,
                             logged_out, password_changed, products >>

\* variant: the owner of the record is not looked at
refresh_outcome_any_owner(tbl, refresh_token, t) ==
    IF verify_refresh_token(refresh_token, t) # "ok"
    THEN verify_refresh_token(refresh_token, t)
    ELSE IF refresh_token.token_id = NoId THEN "InvalidToken"
    ELSE LET found == get_by_token_id(tbl, refresh_token.token_id)
         IN  IF found = {} THEN "InvalidToken"
             ELSE IF \E r \in found : r.expires_at < t THEN "InvalidToken"
             ELSE "ok"

\* variant: the record's own expiry is not re-checked
refresh_outcome_no_recheck(tbl, refresh_token, t) ==
    IF verify_refresh_token(refresh_token, t) # "ok"
    THEN verify_refresh_token(refresh_token, t)
    ELSE IF refresh_token.token_id = NoId THEN "InvalidToken"
    ELSE LET found == get_by_token_id(tbl, refresh_token.token_id)
         IN  IF found = {} THEN "InvalidToken"
             ELSE IF \E r \in found :
                        \/ get_by_id(r.user_id) = NoUser
                        \/ ~users[r.user_id].is_active
                  THEN "UserNotFound"
             ELSE "ok"

\* What refresh_access_token returns or raises in the current state
refresh_outcome(tbl, refresh_token, t) ==
    IF verify_refresh_token(refresh_token, t) # "ok"
    THEN verify_refresh_token(refresh_token, t)
    ELSE IF refresh_token.token_id = NoId THEN "InvalidToken"
    ELSE LET found == get_by_token_id(tbl, refresh_token.token_id)
         IN  IF found = {} THEN "InvalidToken"
             ELSE IF \E r \in found : r.expires_at < t THEN "InvalidToken"
             ELSE IF \E r \in found :
                        \/ get_by_id(r.user_id) = NoUser
                        \/ ~users[r.user_id].is_active
                  THEN "UserNotFound"
             ELSE "ok"

\* variant: the pair is issued to the first user of the table
refresh_user_first(db_token) == CHOOSE u \in DOMAIN users : TRUE

\* the user refresh_access_token issues the new pair to: the owner of the record
refresh_user(db_token) == get_by_id(db_token.user_id)

RefreshAccessToken(refresh_token) ==
    LET outcome == refresh_outcome(refresh_tokens, refresh_token, now)
    IN  IF outcome = "ok"
        THEN /\ uuid_next <= MaxTokens
             /\ LET db_token == CHOOSE r \in get_by_token_id(refresh_tokens,
                                                   refresh_token.token_id) : TRUE
                    revoked == revoke(refresh_tokens, refresh_token.token_id, now)
                    pair == generate_token_pair(revoked, refresh_user(db_token),
                                                uuid_next, now)
                IN  /\ refresh_tokens' = pair.table
                    /\ issued' = issued \cup { pair.access_token, pair.refresh_token }
                    /\ uuid_next' = uuid_next + 1
                    /\ redeemed' = redeemed \cup { refresh_token.token_id }
                    /\ resp' = Resp("refresh", "ok", db_token.user_id,
                                    refresh_token.token_id, uuid_next, 0)
             /\ UNCHANGED << users, attempts, now, login_ids, calls, subject,
                             answer, lim_calls, logged_out, password_changed,
                             products >>
        ELSE /\ resp' = Resp("refresh", outcome, NoUser,
                             IF refresh_token.sig = "HS256"
                             THEN refresh_token.token_id ELSE NoId, NoId, 0)
             /\ UNCHANGED << users, refresh_tokens, uuid_next, issued, attempts, now,
                             redeemed, login_ids, calls, subject, answer, lim_calls,
                             logged_out, password_changed, products >>

\* the exception raised inside the try block of logout, "none" if it runs through
logout_try(refresh_token, t) ==
    IF verify_refresh_token(refresh_token, t) # "ok"
    THEN verify_refresh_token(refresh_token, t)
    ELSE "none"

\* variant: the exception is not caught
logout_outcome_raising(refresh_token, t) ==
    IF logout_try(refresh_token, t) = "none" THEN "ok" ELSE logout_try(refresh_token, t)

\* what logout returns or raises: except Exception: pass
logout_outcome(refresh_token, t) ==
    CASE logout_try(refresh_token, t) = "none" -> "ok"
      [] OTHER -> "ok"

\* variant: nothing is revoked
logout_table_untouched(tbl, refresh_token, t) == tbl

\* the refresh_tokens table after logout
logout_table(tbl, refresh_token, t) ==
    IF logout_try(refresh_token, t) = "none" /\ refresh_token.token_id # NoId
    THEN revoke(tbl, refresh_token.token_id, t)
    ELSE tbl

Logout(refresh_token) ==
    /\ refresh_tokens' = logout_table(refresh_tokens, refresh_token, now)
    /\ logged_out' =
          IF /\ logout_try(refresh_token, now) = "none"
             /\ refresh_token.token_id # NoId
             /\ get_by_token_id(refresh_tokens, refresh_token.token_id) # {}
          THEN logged_out \cup { refresh_token.token_id }
          ELSE logged_out
    /\ resp' = Resp("logout", logout_outcome(refresh_token, now), NoUser,
                    IF refresh_token.sig = "HS256" THEN refresh_token.token_id ELSE NoId,
                    NoId, 0)
    /\ UNCHANGED << users, uuid_next, issued, attempts, now, redeemed, login_ids,
                    calls, subject, answer, lim_calls, password_changed, products >>

\* the periodic sweep: RefreshTokenRepository.delete_expired
DeleteExpired ==
    /\ refresh_tokens' = delete_expired(refresh_tokens, now)
    /\ resp' = Resp("delete_expired", "ok", NoUser, NoId,
                    Cardinality(expired_rows(refresh_tokens, now)), 0)
    /\ UNCHANGED << users, uuid_next, issued, attempts, now, redeemed, login_ids,
                    calls, subject, answer, lim_calls, logged_out, password_changed,
                    products >>

\* UserService.update_user(user_id, is_active=b)
UpdateUserActive(user_id, b) ==
    /\ get_by_id(user_id) # NoUser
    /\ users[user_id].is_active # b
    /\ users' = [users EXCEPT ![user_id].is_active = b]
    /\ resp' = Resp("update_user", "ok", user_id, NoId, NoId, 0)
    /\ UNCHANGED << refresh_tokens, uuid_next, issued, attempts, now, redeemed,
                    login_ids, calls, subject, answer, lim_calls, logged_out,
                    password_changed, products >>

\* the clock moves by one refresh-token lifetime
TickLong ==
    /\ now + LongStep <= MaxLongTicks * LongStep
    /\ now' = now + LongStep
    /\ resp' = Resp("tick", "ok", NoUser, NoId, NoId, 0)
    /\ UNCHANGED << users, refresh_tokens, uuid_next, issued, attempts, redeemed,
                    login_ids, calls, subject, answer, lim_calls, logged_out,
                    password_changed, products >>

-----------------------------------------------------------------------------
UserIds == { "u1", "u2" }
Companies == { "T1", "T2" }
NoCompany == "null"

SeedUsers ==
    [ u \in UserIds |->
        [ phone_number |-> IF u = "u1" THEN Phone1 ELSE Phone2,
          hashed_password |-> hash_password("Passw0rd1"),
          is_active |-> TRUE,
          role |-> IF u = "u1" THEN "viewer" ELSE "company_admin",
          company_id |-> IF u = "u1" THEN "T1" ELSE "T2",
          last_login_at |-> NoTime ] ]

Workers == { 1, 2 }
IdleFrame == [ pc |-> "idle", token |-> MalformedToken, user |-> NoUser, outcome |-> "none",
               new_id |-> NoId ]
NoSubject == [ kind |-> "none" ]
NoAnswer == [ op |-> "none" ]

Init ==
    /\ users = SeedUsers
    /\ refresh_tokens = {}
    /\ uuid_next = 1
    /\ issued = {}
    /\ attempts = [ p \in NormPhones |-> << >> ]
    /\ now = 0
    /\ resp = Resp("none", "ok", NoUser, NoId, NoId, 0)
    /\ redeemed = {}
    /\ login_ids = [ u \in UserIds |-> << >> ]
    /\ calls = [ w \in Workers |-> IdleFrame ]
    /\ subject = NoSubject
    /\ answer = NoAnswer
    /\ lim_calls = [ p \in NormPhones |-> << >> ]
    /\ logged_out = {}
    /\ password_changed = {}
    /\ products = {}

PresentedTokens == issued \cup { MalformedToken }

\* u1 is the identity that acts; u2 is a bystander row of the users table
LoginInputs ==
    { << << "7", " ", "1" >>, "Passw0rd1" >>, << Phone1, "Wr0ngPass" >> }

Next ==
    \/ \E inp \in LoginInputs : Login(inp[1], inp[2])
    \/ \E tok \in PresentedTokens : RefreshAccessToken(tok)
    \/ \E tok \in PresentedTokens : Logout(tok)
    \/ DeleteExpired
    \/ \E b \in BOOLEAN : UpdateUserActive("u1", b)
    \/ TickLong

Spec == Init /\ [][Next]_vars

-----------------------------------------------------------------------------
(* Concurrent refresh_access_token calls: one step per await *)

Frame(pc, token, user, outcome, new_id) ==
    [ pc |-> pc, token |-> token, user |-> user, outcome |-> outcome, new_id |-> new_id ]

\* entry: verify_refresh_token and the token_id check run without suspending
RStart(w, refresh_token) ==
    /\ calls[w].pc = "idle"
    /\ LET v == verify_refresh_token(refresh_token, now)
       IN  calls' = [calls EXCEPT ![w] =
                IF v # "ok" THEN Frame("done", refresh_token, NoUser, v, NoId)
                ELSE IF refresh_token.token_id = NoId
                     THEN Frame("done", refresh_token, NoUser, "InvalidToken", NoId)
                ELSE Frame("lookup", refresh_token, NoUser, "none", NoId)]
    /\ UNCHANGED << users, refresh_tokens, uuid_next, issued, attempts, now, resp,
                    redeemed, login_ids, subject, answer, lim_calls, logged_out,
                    password_changed, products >>

\* await get_by_token_id, then the expiry double check
RLookup(w) ==
    /\ calls[w].pc = "lookup"
    /\ LET found == get_by_token_id(refresh_tokens, calls[w].token.token_id)
       IN  calls' = [calls EXCEPT ![w] =
                IF found = {} \/ \E r \in found : r.expires_at < now
                THEN Frame("done", @.token, NoUser, "InvalidToken", NoId)
                ELSE Frame("user", @.token, (CHOOSE r \in found : TRUE).user_id,
                           "none", NoId)]
    /\ UNCHANGED << users, refresh_tokens, uuid_next, issued, attempts, now, resp,
                    redeemed, login_ids, subject, answer, lim_calls, logged_out,
                    password_changed, products >>

\* await user_repo.get_by_id
RGetUser(w) ==
    /\ calls[w].pc = "user"
    /\ calls' = [calls EXCEPT ![w] =
            IF get_by_id(@.user) = NoUser \/ ~users[@.user].is_active
            THEN Frame("done", @.token, NoUser, "UserNotFound", NoId)
            ELSE Frame("revoke", @.token, @.user, "none", NoId)]
    /\ UNCHANGED << users, refresh_tokens, uuid_next, issued, attempts, now, resp,
                    redeemed, login_ids, subject, answer, lim_calls, logged_out,
                    password_changed, products >>

\* await refresh_token_repo.revoke
RRevoke(w) ==
    /\ calls[w].pc = "revoke"
    /\ refresh_tokens' = revoke(refresh_tokens, calls[w].token.token_id, now)
    /\ calls' = [calls EXCEPT ![w].pc = "issue"]
    /\ UNCHANGED << users, uuid_next, issued, attempts, now, resp, redeemed,
                    login_ids, subject, answer, lim_calls, logged_out,
                    password_changed, products >>

\* await _generate_token_pair, return the pair
RIssue(w) ==
    /\ calls[w].pc = "issue"
    /\ uuid_next <= MaxRaceTokens
    /\ LET pair == generate_token_pair(refresh_tokens, calls[w].user, uuid_next, now)
       IN  /\ refresh_tokens' = pair.table
           /\ issued' = issued \cup { pair.access_token, pair.refresh_token }
    /\ uuid_next' = uuid_next + 1
    /\ redeemed' = redeemed \cup { calls[w].token.token_id }
    /\ calls' = [calls EXCEPT ![w] = Frame("done", @.token, @.user, "ok", uuid_next)]
    /\ UNCHANGED << users, attempts, now, resp, login_ids, subject, answer, lim_calls, logged_out,
                    password_changed, products >>

NextRace ==
    \/ \E inp \in LoginInputs : Login(inp[1], inp[2])
    \/ \E w \in Workers, tok \in PresentedTokens : RStart(w, tok)
    \/ \E w \in Workers : RLookup(w)
    \/ \E w \in Workers : RGetUser(w)
    \/ \E w \in Workers : RRevoke(w)
    \/ \E w \in Workers : RIssue(w)

SpecRace == Init /\ [][NextRace]_vars

-----------------------------------------------------------------------------
(* Direct use of the rate limiter (core/security.py), with its call history *)

LimEvent(kind, t, ok, retry_after) ==
    [ kind |-> kind, t |-> t, ok |-> ok, retry_after |-> retry_after ]

CheckRateLimit(phone_number) ==
    /\ Len(lim_calls[phone_number]) < MaxLimCalls
    /\ LET lim == check_rate_limit(attempts, phone_number, now)
       IN  /\ attempts' = lim.attempts
           /\ lim_calls' = [lim_calls EXCEPT ![phone_number] =
                               Append(@, LimEvent("check", now, lim.ok, lim.retry_after))]
           /\ resp' = Resp("check_rate_limit",
                           IF lim.ok THEN "ok" ELSE "RateLimitExceeded",
                           NoUser, NoId, NoId, lim.retry_after)
    /\ UNCHANGED << users, refresh_tokens, uuid_next, issued, now, redeemed,
                    login_ids, calls, subject, answer, logged_out, password_changed,
                    products >>

ResetRateLimit(phone_number) ==
    /\ Len(lim_calls[phone_number]) < MaxLimCalls
    /\ attempts' = reset(attempts, phone_number)
    /\ lim_calls' = [lim_calls EXCEPT ![phone_number] =
                        Append(@, LimEvent("reset", now, TRUE, 0))]
    /\ resp' = Resp("reset", "ok", NoUser, NoId, NoId, 0)
    /\ UNCHANGED << users, refresh_tokens, uuid_next, issued, now, redeemed,
                    login_ids, calls, subject, answer, logged_out, password_changed,
                    products >>

\* the clock moves by half a limiter window
TickShort ==
    /\ now + ShortStep <= MaxShortTicks * ShortStep
    /\ now' = now + ShortStep
    /\ resp' = Resp("tick", "ok", NoUser, NoId, NoId, 0)
    /\ UNCHANGED << users, refresh_tokens, uuid_next, issued, attempts, redeemed,
                    login_ids, calls, subject, answer, lim_calls, logged_out,
                    password_changed, products >>

LimPhones == { Phone1 }

NextLimit ==
    \/ \E p \in LimPhones : CheckRateLimit(p)
    \/ \E p \in LimPhones : ResetRateLimit(p)
    \/ TickShort

SpecLimit == Init /\ [][NextLimit]_vars

-----------------------------------------------------------------------------
(* Concurrent login calls (features/auth/auth_services.py): one step per    *)
(* await; what runs between two awaits runs without suspending              *)

\* entry: normalize_phone_number and check_rate_limit
LStart(w, phone_number, password) ==
    LET normalized_phone == normalize_phone_number(phone_number)
        lim == check_rate_limit(attempts, normalized_phone, now)
    IN  /\ calls[w].pc \in { "idle", "done" }
        /\ Len(lim_calls[normalized_phone]) < MaxLimCalls
        /\ attempts' = lim.attempts
        /\ lim_calls' = [lim_calls EXCEPT ![normalized_phone] =
                            Append(@, LimEvent("check", now, lim.ok, lim.retry_after))]
        /\ calls' = [calls EXCEPT ![w] =
                IF lim.ok
                THEN Frame("get_by_phone", << normalized_phone, password >>, NoUser,
                           "none", NoId)
                ELSE Frame("done", << normalized_phone, password >>, NoUser,
                           "RateLimitExceeded", NoId)]
        /\ UNCHANGED << users, refresh_tokens, uuid_next, issued, now, resp, redeemed,
                        login_ids, subject, answer, logged_out, password_changed,
                        products >>

\* await get_by_phone, then verify_password, is_active and rate_limiter.reset
LGetUser(w) ==
    LET normalized_phone == calls[w].token[1]
        user == get_by_phone(normalized_phone)
        outcome == login_outcome(normalized_phone, calls[w].token[2], [ ok |-> TRUE ])
    IN  /\ calls[w].pc = "get_by_phone"
        /\ IF outcome = "ok"
           THEN /\ Len(lim_calls[normalized_phone]) < MaxLimCalls
                /\ attempts' = reset(attempts, normalized_phone)
                /\ lim_calls' = [lim_calls EXCEPT ![normalized_phone] =
                                    Append(@, LimEvent("reset", now, TRUE, 0))]
                /\ calls' = [calls EXCEPT ![w] =
                                Frame("revoke_all", @.token, user, "none", NoId)]
           ELSE /\ calls' = [calls EXCEPT ![w] =
                                Frame("done", @.token, NoUser, outcome, NoId)]
                /\ UNCHANGED << attempts, lim_calls >>
        /\ UNCHANGED << users, refresh_tokens, uuid_next, issued, now, resp, redeemed,
                        login_ids, subject, answer, logged_out, password_changed,
                        products >>

\* await refresh_token_repo.revoke_all_for_user
LRevokeAll(w) ==
    /\ calls[w].pc = "revoke_all"
    /\ refresh_tokens' = revoke_all_for_user(refresh_tokens, calls[w].user, now)
    /\ calls' = [calls EXCEPT ![w].pc = "issue"]
    /\ UNCHANGED << users, uuid_next, issued, attempts, now, resp, redeemed,
                    login_ids, subject, answer, lim_calls, logged_out,
                    password_changed, products >>

\* await _generate_token_pair
LIssue(w) ==
    /\ calls[w].pc = "issue"
    /\ uuid_next <= MaxRaceTokens
    /\ LET pair == generate_token_pair(refresh_tokens, calls[w].user, uuid_next, now)
       IN  /\ refresh_tokens' = pair.table
           /\ issued' = issued \cup { pair.access_token, pair.refresh_token }
    /\ uuid_next' = uuid_next + 1
    /\ calls' = [calls EXCEPT ![w] =
                    Frame("update_last_login", @.token, @.user, "none", uuid_next)]
    /\ UNCHANGED << users, attempts, now, resp, redeemed, login_ids, subject, answer,
                    lim_calls, logged_out, password_changed, products >>

\* await user_repo.update_last_login, return the user and the pair
LUpdateLastLogin(w) ==
    /\ calls[w].pc = "update_last_login"
    /\ users' = update_last_login(users, calls[w].user, now)
    /\ login_ids' = [login_ids EXCEPT ![calls[w].user] = Append(@, calls[w].new_id)]
    /\ calls' = [calls EXCEPT ![w] = Frame("done", @.token, @.user, "ok", @.new_id)]
    /\ UNCHANGED << refresh_tokens, uuid_next, issued, attempts, now, resp, redeemed,
                    subject, answer, lim_calls, logged_out, password_changed,
                    products >>

NextLoginRace ==
    \/ \E w \in Workers, inp \in LoginInputs : LStart(w, inp[1], inp[2])
    \/ \E w \in Workers : LGetUser(w)
    \/ \E w \in Workers : LRevokeAll(w)
    \/ \E w \in Workers : LIssue(w)
    \/ \E w \in Workers : LUpdateLastLogin(w)

SpecLoginRace == Init /\ [][NextLoginRace]_vars

-----------------------------------------------------------------------------
(* Refresh against a record whose stored expires_at is not the token's exp.  *)
(* _generate_token_pair reads the clock a second time for expires_at, and    *)
(* the column can be written by another host: the row is an input here.      *)

StoredExpiries == { ShortStep, RefreshTTL }

InitSkew ==
    /\ users = SeedUsers
    /\ \E e \in StoredExpiries :
          LET pair == generate_token_pair({}, "u1", 1, 0)
          IN  /\ refresh_tokens = { [r EXCEPT !.expires_at = e] : r \in pair.table }
              /\ issued = { pair.access_token, pair.refresh_token }
    /\ uuid_next = 2
    /\ attempts = [ p \in NormPhones |-> << >> ]
    /\ now = 0
    /\ resp = Resp("none", "ok", NoUser, NoId, NoId, 0)
    /\ redeemed = {}
    /\ login_ids = [ u \in UserIds |-> IF u = "u1" THEN << 1 >> ELSE << >> ]
    /\ calls = [ w \in Workers |-> IdleFrame ]
    /\ subject = NoSubject
    /\ answer = NoAnswer
    /\ lim_calls = [ p \in NormPhones |-> << >> ]
    /\ logged_out = {}
    /\ password_changed = {}
    /\ products = {}

NextSkew ==
    \/ \E tok \in PresentedTokens : RefreshAccessToken(tok)
    \/ \E tok \in PresentedTokens : Logout(tok)
    \/ \E b \in BOOLEAN : UpdateUserActive("u1", b)
    \/ TickShort

SpecSkew == InitSkew /\ [][NextSkew]_vars

-----------------------------------------------------------------------------
(* Logins with known and unknown phone numbers *)

AllLoginInputs ==
    { << << "7", " ", "1" >>, "Passw0rd1" >>, << Phone1, "Wr0ngPass" >>,
      << PhoneX, "Passw0rd1" >> }

NextLogin ==
    \/ \E inp \in AllLoginInputs : Login(inp[1], inp[2])
    \/ \E b \in BOOLEAN : UpdateUserActive("u1", b)
    \/ TickShort

SpecLogin == Init /\ [][NextLogin]_vars

-----------------------------------------------------------------------------
(* Authentication of a request (features/auth/dependencies.py) *)

NoCredentials == [ sig |-> "absent" ]

Unauthorized(detail) == [ status |-> 401, detail |-> detail, user |-> NoUser ]

\* variant: the is_active claim of the token decides
get_current_user_by_claim(credentials, t) ==
    IF credentials = NoCredentials THEN Unauthorized("Not authenticated")
    ELSE IF verify_access_token(credentials, t) # "ok"
         THEN Unauthorized(verify_access_token(credentials, t))
    ELSE IF get_by_id(credentials.user_id) = NoUser
         THEN Unauthorized("Invalid authentication credentials")
    ELSE IF ~credentials.is_active
         THEN Unauthorized("Invalid authentication credentials")
    ELSE [ status |-> 200, detail |-> "", user |-> credentials.user_id ]

\* get_current_user: the user it returns or the 401 it raises. The detail of
\* a token failure is the message of the exception (here its name); the
\* HTTPException raised inside the try block is caught by except Exception.
\* variant: the access token is tied to a live refresh-token record
get_current_user_session_bound(credentials, t) ==
    IF credentials = NoCredentials THEN Unauthorized("Not authenticated")
    ELSE IF verify_access_token(credentials, t) # "ok"
         THEN Unauthorized(verify_access_token(credentials, t))
    ELSE IF get_by_id(credentials.user_id) = NoUser
         THEN Unauthorized("Invalid authentication credentials")
    ELSE IF ~users[credentials.user_id].is_active
         THEN Unauthorized("Invalid authentication credentials")
    ELSE IF \A r \in refresh_tokens :
               r.user_id = credentials.user_id => r.revoked_at # NoTime
         THEN Unauthorized("Invalid authentication credentials")
    ELSE [ status |-> 200, detail |-> "", user |-> credentials.user_id ]

get_current_user(credentials, t) ==
    IF credentials = NoCredentials THEN Unauthorized("Not authenticated")
    ELSE IF verify_access_token(credentials, t) # "ok"
         THEN Unauthorized(verify_access_token(credentials, t))
    ELSE IF get_by_id(credentials.user_id) = NoUser
         THEN Unauthorized("Invalid authentication credentials")
    ELSE IF ~users[credentials.user_id].is_active
         THEN Unauthorized("Invalid authentication credentials")
    ELSE [ status |-> 200, detail |-> "", user |-> credentials.user_id ]

GetCurrentUser(credentials) ==
    /\ LET r == get_current_user(credentials, now)
       IN  resp' = Resp("get_current_user", IF r.status = 200 THEN "ok" ELSE "401",
                        r.user, credentials, NoId, 0)
    /\ UNCHANGED << users, refresh_tokens, uuid_next, issued, attempts, now, redeemed,
                    login_ids, calls, subject, answer, lim_calls, logged_out,
                    password_changed, products >>

\* variant: the delete does not cascade to the refresh tokens
DeleteUser_rows_kept(user_id) ==
    /\ get_by_id(user_id) # NoUser
    /\ users' = [ u \in DOMAIN users \ { user_id } |-> users[u] ]
    /\ resp' = Resp("delete_user", "ok", user_id, NoId, NoId, 0)
    /\ UNCHANGED << refresh_tokens, uuid_next, issued, attempts, now, redeemed,
                    login_ids, calls, subject, answer, lim_calls, logged_out,
                    password_changed, products >>

\* UserService.delete_user: the row and, by cascade, its refresh tokens
DeleteUser(user_id) ==
    /\ get_by_id(user_id) # NoUser
    /\ users' = [ u \in DOMAIN users \ { user_id } |-> users[u] ]
    /\ refresh_tokens' = { r \in refresh_tokens : r.user_id # user_id }
    /\ resp' = Resp("delete_user", "ok", user_id, NoId, NoId, 0)
    /\ UNCHANGED << uuid_next, issued, attempts, now, redeemed, login_ids, calls,
                    subject, answer, lim_calls, logged_out, password_changed,
                    products >>

Credentials == issued \cup { MalformedToken, NoCredentials }

NextAccess ==
    \/ \E inp \in LoginInputs : Login(inp[1], inp[2])
    \/ \E c \in Credentials : GetCurrentUser(c)
    \/ \E b \in BOOLEAN : UpdateUserActive("u1", b)
    \/ DeleteUser("u1")
    \/ TickShort

SpecAccess == Init /\ [][NextAccess]_vars

-----------------------------------------------------------------------------
(* Sessions of two users: login, refresh and authenticated requests *)

SessionLoginInputs == { << Phone1, "Passw0rd1" >>, << Phone2, "Passw0rd1" >> }

NextSession ==
    \/ \E inp \in SessionLoginInputs : Login(inp[1], inp[2])
    \/ \E tok \in PresentedTokens : RefreshAccessToken(tok)
    \/ \E c \in Credentials : GetCurrentUser(c)
    \/ TickShort

SpecSession == Init /\ [][NextSession]_vars

-----------------------------------------------------------------------------
(* Permission catalog (features/authorization/permissions.py) *)

Permission ==
    { "users.view", "users.create", "users.edit", "users.delete",
      "companies.view", "companies.create", "companies.edit", "companies.delete",
      "products.view", "products.create", "products.edit", "products.delete",
      "invoices.view", "invoices.create", "invoices.edit", "invoices.delete",
      "purchases.view", "purchases.create", "purchases.edit", "purchases.delete",
      "warehouse.view", "warehouse.manage",
      "reports.view", "reports.export", "financials.view",
      "audit.view", "settings.view", "settings.edit" }

(* Role tables (features/authorization/role_permissions.py) *)

\* the members of CompanyRole, by value (the member name in lower case)
CompanyRole == { "admin", "accountant", "sales_manager", "warehouse_keeper",
                 "salesperson", "viewer" }

COMPANY_ROLE_PERMISSIONS(role) ==
    CASE role = "admin" ->
            { "users.view", "users.edit",
              "products.view", "products.create", "products.edit", "products.delete",
              "invoices.view", "invoices.create", "invoices.edit", "invoices.delete",
              "purchases.view", "purchases.create", "purchases.edit", "purchases.delete",
              "warehouse.view", "warehouse.manage",
              "reports.view", "reports.export", "financials.view", "audit.view" }
      [] role = "accountant" ->
            { "users.view", "products.view",
              "invoices.view", "invoices.create", "invoices.edit",
              "purchases.view", "purchases.create", "purchases.edit",
              "warehouse.view", "reports.view", "reports.export", "financials.view" }
      [] role = "sales_manager" ->
            { "users.view", "products.view", "products.create", "products.edit",
              "invoices.view", "invoices.create", "invoices.edit", "invoices.delete",
              "warehouse.view", "reports.view" }
      [] role = "warehouse_keeper" ->
            { "products.view", "products.create", "products.edit", "purchases.view",
              "warehouse.view", "warehouse.manage", "reports.view" }
      [] role = "salesperson" ->
            { "products.view", "invoices.view", "invoices.create", "warehouse.view" }
      [] role = "viewer" ->
            { "users.view", "products.view", "invoices.view", "purchases.view",
              "warehouse.view", "reports.view" }

SYSTEM_ROLE_PERMISSIONS(role) ==
    CASE role = "system_admin" ->
            { "users.view", "users.create", "users.edit", "users.delete",
              "companies.view", "companies.create", "companies.edit", "companies.delete",
              "products.view", "products.create", "products.edit", "products.delete",
              "invoices.view", "invoices.create", "invoices.edit", "invoices.delete",
              "purchases.view", "purchases.create", "purchases.edit", "purchases.delete",
              "warehouse.view", "warehouse.manage",
              "reports.view", "reports.export", "financials.view",
              "audit.view", "settings.view", "settings.edit" }
      [] role = "company_admin" -> {}
      [] role = "user" -> {}

SystemRoles == { "system_admin", "company_admin", "user" }

get_permissions_for_company_role(role) ==
    IF role \in CompanyRole THEN COMPANY_ROLE_PERMISSIONS(role) ELSE {}

get_permissions_for_system_role(role) ==
    IF role \in SystemRoles THEN SYSTEM_ROLE_PERMISSIONS(role) ELSE {}

get_all_permissions_for_user(system_role, company_roles) ==
    get_permissions_for_system_role(system_role)
        \cup UNION { get_permissions_for_company_role(company_roles[i]) :
                        i \in 1..Len(company_roles) }

(* AuthorizationService (features/authorization/service.py) *)

\* variant: the is_active test left out
calculate_permissions_any_status(user) ==
    IF user = [ kind |-> "none" ] THEN {}
    ELSE LET company_roles == SelectSeq(user.company_roles,
                                        LAMBDA role_str : role_str \in CompanyRole)
         IN  get_all_permissions_for_user(user.role, company_roles)

calculate_permissions(user) ==
    IF user = [ kind |-> "none" ] THEN {}
    ELSE IF ~user.is_active THEN {}
    ELSE LET company_roles == SelectSeq(user.company_roles,
                                        LAMBDA role_str : role_str \in CompanyRole)
         IN  get_all_permissions_for_user(user.role, company_roles)

\* variant: an active system_admin is not checked against the catalog
has_permission_admin_bypass(user, permission) ==
    IF user # [ kind |-> "none" ] /\ user.is_active /\ user.role = "system_admin"
    THEN TRUE
    ELSE IF permission \notin Permission THEN FALSE
    ELSE permission \in calculate_permissions(user)

has_permission(user, permission) ==
    IF permission \notin Permission THEN FALSE
    ELSE permission \in calculate_permissions(user)

(* permission_checker (features/authorization/permission_checker.py) *)

\* the names role_permissions.py defines at module level
role_permissions_names ==
    { "COMPANY_ROLE_PERMISSIONS", "SYSTEM_ROLE_PERMISSIONS",
      "get_permissions_for_company_role", "get_permissions_for_system_role",
      "get_all_permissions_for_user" }

\* `from features.authorization.role_permissions import get_permissions_for_role`
\* runs when permission_checker is imported; the role lookup it names is the
\* one of the user's single role, and is_active is not read
get_user_permissions(user) ==
    IF "get_permissions_for_role" \notin role_permissions_names
    THEN [ raised |-> "ImportError", value |-> {} ]
    ELSE [ raised |-> "none", value |-> get_permissions_for_system_role(user.role) ]

permission_checker_has_permission(user, permission) ==
    IF get_user_permissions(user).raised # "none"
    THEN [ raised |-> get_user_permissions(user).raised, value |-> FALSE ]
    ELSE [ raised |-> "none", value |-> permission \in get_user_permissions(user).value ]

require_permission(user, permission, company_id) ==
    IF permission_checker_has_permission(user, permission).raised # "none"
    THEN permission_checker_has_permission(user, permission).raised
    ELSE IF ~permission_checker_has_permission(user, permission).value
    THEN "PermissionDenied"
    ELSE IF company_id = "null" THEN "none"
    ELSE IF user.role = "system_admin" THEN "none"
    ELSE IF user.company_id # company_id THEN "PermissionDenied"
    ELSE "none"

(* CompanyContext (core/company_context.py) *)

\* variant: the missing company is reported as an access failure
CompanyContext_forbidden(user) ==
    LET is_system_admin == (user.role = "system_admin")
    IN  IF ~is_system_admin /\ user.company_id = "null"
        THEN [ status |-> 403 ]
        ELSE [ status |-> 200, user |-> user.id, company_id |-> user.company_id,
               is_system_admin |-> is_system_admin ]

\* __init__: the context, or the 500 it raises
CompanyContext(user) ==
    LET is_system_admin == (user.role = "system_admin")
    IN  IF ~is_system_admin /\ user.company_id = "null"
        THEN [ status |-> 500 ]
        ELSE [ status |-> 200, user |-> user.id, company_id |-> user.company_id,
               is_system_admin |-> is_system_admin ]

\* variant: nobody is filtered
should_filter_never(ctx) == FALSE

should_filter(ctx) == ~ctx.is_system_admin

Where(field, value) == [ field |-> field, op |-> "==", value |-> value ]

\* variant: the query is returned as it came
filter_query_by_company_none(ctx, query) == query

filter_query_by_company(ctx, query) ==
    IF should_filter(ctx)
    THEN Append(query, Where("company_id", ctx.company_id))
    ELSE query

\* get_company_id_for_create: the company_id it returns, or the 400 it raises
get_company_id_for_create(ctx) ==
    IF ctx.company_id = "null"
    THEN [ status |-> 400, value |-> "null" ]
    ELSE [ status |-> 200, value |-> ctx.company_id ]

\* variant: a resource without a tenant is open to everyone
ensure_company_access_null_open(ctx, resource_company_id) ==
    IF ctx.is_system_admin THEN 200
    ELSE IF resource_company_id # "null" /\ resource_company_id # ctx.company_id THEN 403
    ELSE 200

\* the HTTP status of ensure_company_access: 200 when it returns
ensure_company_access(ctx, resource_company_id) ==
    IF ctx.is_system_admin THEN 200
    ELSE IF resource_company_id # ctx.company_id THEN 403
    ELSE 200

(* AuthorizationService.is_system_admin (features/authorization/service.py) *)

\* variant: derived from the computed permission set
is_system_admin_by_permissions(user) ==
    calculate_permissions(user) = Permission

is_system_admin(user) ==
    user # [ kind |-> "none" ] /\ user.role = "system_admin"

-----------------------------------------------------------------------------
(* Password strength (core/security.py); a password is a sequence of code points *)

\* code points by the classes the regular expressions tell apart:
\* U+00C9 and U+00E9 are the letters E-acute and e-acute, U+0663 is the
\* Arabic-Indic digit three
PasswordChars == { "A", "a", "1", "!", "U+00C9", "U+00E9", "U+0663" }

MatchesUpper == { "A" }                \* [A-Z]
MatchesLower == { "a" }                \* [a-z]
MatchesDigit == { "1", "U+0663" }      \* \d on str: every Unicode decimal digit

re_search(class, password) == \E i \in 1..Len(password) : password[i] \in class

\* variant: the lower limit compared with <=
validate_password_strength_strict(password) ==
    IF Len(password) <= PASSWORD_MIN_LENGTH THEN "PasswordTooWeak"
    ELSE IF Len(password) > PASSWORD_MAX_LENGTH THEN "PasswordTooWeak"
    ELSE IF ~re_search(MatchesUpper, password) THEN "PasswordTooWeak"
    ELSE IF ~re_search(MatchesLower, password) THEN "PasswordTooWeak"
    ELSE IF ~re_search(MatchesDigit, password) THEN "PasswordTooWeak"
    ELSE "ok"

\* what validate_password_strength raises, "ok" if it returns
validate_password_strength(password) ==
    IF Len(password) < PASSWORD_MIN_LENGTH THEN "PasswordTooWeak"
    ELSE IF Len(password) > PASSWORD_MAX_LENGTH THEN "PasswordTooWeak"
    ELSE IF ~re_search(MatchesUpper, password) THEN "PasswordTooWeak"
    ELSE IF ~re_search(MatchesLower, password) THEN "PasswordTooWeak"
    ELSE IF ~re_search(MatchesDigit, password) THEN "PasswordTooWeak"
    ELSE "ok"

\* one call, on the password the run was started with
ValidatePasswordStrength ==
    /\ subject.kind = "password"
    /\ resp' = Resp("validate_password_strength",
                    validate_password_strength(subject.password),
                    NoUser, subject.password, NoId, 0)
    /\ UNCHANGED << users, refresh_tokens, uuid_next, issued, attempts, now, redeemed,
                    login_ids, calls, subject, answer, lim_calls, logged_out,
                    password_changed, products >>

\* a core of up to MaxCore code points, filled up with "!" to length n
Padded(core, n) ==
    [ i \in 1..(IF n > Len(core) THEN n ELSE Len(core)) |->
        IF i <= Len(core) THEN core[i] ELSE "!" ]

PasswordCores == UNION { [ 1..n -> PasswordChars ] : n \in 0..MaxCore }

PasswordLengths ==
    { 0, PASSWORD_MIN_LENGTH - 1, PASSWORD_MIN_LENGTH,
      PASSWORD_MAX_LENGTH, PASSWORD_MAX_LENGTH + 1 }

PasswordInputs == { Padded(core, n) : core \in PasswordCores, n \in PasswordLengths }

InitPassword ==
    /\ users = SeedUsers
    /\ refresh_tokens = {}
    /\ uuid_next = 1
    /\ issued = {}
    /\ attempts = [ p \in NormPhones |-> << >> ]
    /\ now = 0
    /\ resp = Resp("none", "ok", NoUser, NoId, NoId, 0)
    /\ redeemed = {}
    /\ login_ids = [ u \in UserIds |-> << >> ]
    /\ calls = [ w \in Workers |-> IdleFrame ]
    /\ subject \in [ kind : { "password" }, password : PasswordInputs ]
    /\ answer = NoAnswer
    /\ lim_calls = [ p \in NormPhones |-> << >> ]
    /\ logged_out = {}
    /\ password_changed = {}
    /\ products = {}

NextPassword == ValidatePasswordStrength

SpecPassword == InitPassword /\ [][NextPassword]_vars

-----------------------------------------------------------------------------
(* UserService (features/users/service.py) *)

\* Python truthiness of an optional string argument
Truthy(x) == x # "null" /\ x # ""

phone_exists(phone_number) == get_by_phone(phone_number) # NoUser

\* what create_user raises, "ok" if it saves the user
create_user_outcome(normalized_phone, company_id, role) ==
    IF phone_exists(normalized_phone) THEN "PhoneAlreadyExists"
    ELSE IF role \notin SystemRoles THEN "ValueError"
    ELSE IF role = "system_admin" /\ Truthy(company_id) THEN "ValueError"
    ELSE IF role # "system_admin" /\ ~Truthy(company_id) THEN "ValueError"
    ELSE "ok"

CreateUser(user_id, phone_number, password, company_id, role) ==
    LET normalized_phone == normalize_phone_number(phone_number)
        outcome == create_user_outcome(normalized_phone, company_id, role)
    IN  /\ user_id \notin DOMAIN users
        /\ IF outcome = "ok"
           THEN users' = [ u \in DOMAIN users \cup { user_id } |->
                            IF u = user_id
                            THEN [ phone_number |-> normalized_phone,
                                   hashed_password |-> hash_password(password),
                                   is_active |-> TRUE,
                                   role |-> role,
                                   company_id |-> IF Truthy(company_id)
                                                  THEN company_id ELSE "null",
                                   last_login_at |-> NoTime ]
                            ELSE users[u] ]
           ELSE users' = users
        /\ resp' = Resp("create_user", outcome, IF outcome = "ok" THEN user_id ELSE NoUser,
                        << normalized_phone, company_id, role >>, NoId, 0)
        /\ UNCHANGED << refresh_tokens, uuid_next, issued, attempts, now, redeemed,
                        login_ids, calls, subject, answer, lim_calls, logged_out,
                        password_changed, products >>

\* what update_user raises for its role and company_id arguments
update_user_outcome(user_id, company_id, role) ==
    IF get_by_id(user_id) = NoUser THEN "UserNotFound"
    ELSE IF Truthy(role) /\ role \notin SystemRoles THEN "ValueError"
    ELSE IF Truthy(role) /\ role = "system_admin" /\ Truthy(users[user_id].company_id)
         THEN "ValueError"
    ELSE "ok"

\* update_user(user_id, company_id=..., role=...); "null" is an argument left out
UpdateUser(user_id, company_id, role) ==
    LET outcome == update_user_outcome(user_id, company_id, role)
    IN  /\ IF outcome = "ok"
           THEN users' = [users EXCEPT
                    ![user_id].role = IF Truthy(role) THEN role ELSE @,
                    ![user_id].company_id =
                        IF company_id = "null" THEN @
                        ELSE IF Truthy(company_id) THEN company_id ELSE "null"]
           ELSE users' = users
        /\ resp' = Resp("update_user", outcome, user_id, << company_id, role >>, NoId, 0)
        /\ UNCHANGED << refresh_tokens, uuid_next, issued, attempts, now, redeemed,
                        login_ids, calls, subject, answer, lim_calls, logged_out,
                        password_changed, products >>

CompanyIdInputs == { "null", "", "T1", "T2" }
RoleInputs == { "null", "system_admin", "company_admin", "user", "viewer" }

NextUsers ==
    \/ \E p \in { Phone1, PhoneX }, c \in CompanyIdInputs, r \in RoleInputs \ { "null" } :
          CreateUser("u3", p, "Passw0rd1", c, r)
    \/ \E u \in { "u1", "u3" }, c \in CompanyIdInputs, r \in RoleInputs :
          UpdateUser(u, c, r)

SpecUsers == Init /\ [][NextUsers]_vars

-----------------------------------------------------------------------------
(* AuthService of features/auth/services.py: signup and change_password *)

\* passwords as sequences of code points: two strong ones and a weak one
AccountPasswords ==
    [ first |-> << "A", "a", "1", "!", "!", "!", "!", "!" >>,
      second |-> << "A", "a", "1", "1", "!", "!", "!", "!" >>,
      weak |-> << "a", "1" >> ]

\* what signup raises, "ok" if it creates the user
signup_outcome(normalized_phone, password) ==
    IF phone_exists(normalized_phone) THEN "PhoneAlreadyExists"
    ELSE IF validate_password_strength(password) # "ok" THEN "PasswordTooWeak"
    ELSE "ok"

\* user_id is the uuid4() default of the new row; the row takes the defaults
\* of UserRepository.create and of the User model
Signup(user_id, phone_number, password) ==
    LET normalized_phone == normalize_phone_number(phone_number)
        outcome == signup_outcome(normalized_phone, password)
    IN  /\ user_id \notin DOMAIN users
        /\ IF outcome = "ok"
           THEN /\ uuid_next <= MaxTokens
                /\ users' = [ u \in DOMAIN users \cup { user_id } |->
                                IF u = user_id
                                THEN [ phone_number |-> normalized_phone,
                                       hashed_password |-> hash_password(password),
                                       is_active |-> TRUE,
                                       role |-> "user",
                                       company_id |-> "null",
                                       last_login_at |-> NoTime ]
                                ELSE users[u] ]
                /\ LET access_token == create_access_token(user_id, normalized_phone,
                                            TRUE, "null", "user", now)
                       refresh_token == create_refresh_token(user_id, uuid_next, now)
                   IN  /\ refresh_tokens' = create(refresh_tokens, user_id, uuid_next,
                                                   hash_token(refresh_token),
                                                   now + RefreshTTL, now)
                       /\ issued' = issued \cup { access_token, refresh_token }
                /\ uuid_next' = uuid_next + 1
                /\ resp' = Resp("signup", "ok", user_id,
                                << normalized_phone, password >>, uuid_next, 0)
           ELSE /\ resp' = Resp("signup", outcome, NoUser,
                                << normalized_phone, password >>, NoId, 0)
                /\ UNCHANGED << users, refresh_tokens, issued, uuid_next >>
        /\ UNCHANGED << attempts, now, redeemed, login_ids, calls, subject, answer,
                        lim_calls, logged_out, password_changed, products >>

\* what change_password raises, "ok" if it stores the new password
change_password_outcome(user_id, old_password, new_password) ==
    IF get_by_id(user_id) = NoUser THEN "UserNotFound"
    ELSE IF ~verify_password(old_password, users[user_id].hashed_password)
         THEN "InvalidCredentials"
    ELSE IF validate_password_strength(new_password) # "ok" THEN "PasswordTooWeak"
    ELSE "ok"

\* variant: the sessions are left alone
change_password_sessions_kept(tbl, user_id, t) == tbl

\* the refresh_tokens table after a successful change_password
change_password_sessions(tbl, user_id, t) == revoke_all_for_user(tbl, user_id, t)

ChangePassword(user_id, old_password, new_password) ==
    LET outcome == change_password_outcome(user_id, old_password, new_password)
    IN  /\ IF outcome = "ok"
           THEN /\ users' = [users EXCEPT ![user_id].hashed_password =
                                              hash_password(new_password)]
                /\ refresh_tokens' = change_password_sessions(refresh_tokens, user_id, now)
                /\ password_changed' = password_changed \cup
                      { r.token_id : r \in { x \in refresh_tokens : x.user_id = user_id } }
           ELSE UNCHANGED << users, refresh_tokens, password_changed >>
        /\ resp' = Resp("change_password", outcome, user_id, NoId, NoId, 0)
        /\ UNCHANGED << uuid_next, issued, attempts, now, redeemed, login_ids, calls,
                        subject, answer, lim_calls, logged_out, products >>

\* the state of a fresh installation: no user is stored
InitSignup ==
    /\ users = << >>
    /\ refresh_tokens = {}
    /\ uuid_next = 1
    /\ issued = {}
    /\ attempts = [ p \in NormPhones |-> << >> ]
    /\ now = 0
    /\ resp = Resp("none", "ok", NoUser, NoId, NoId, 0)
    /\ redeemed = {}
    /\ login_ids = [ u \in UserIds |-> << >> ]
    /\ calls = [ w \in Workers |-> IdleFrame ]
    /\ subject = NoSubject
    /\ answer = NoAnswer
    /\ lim_calls = [ p \in NormPhones |-> << >> ]
    /\ logged_out = {}
    /\ password_changed = {}
    /\ products = {}

NextAccount ==
    \/ \E u \in UserIds, p \in { Phone1, Phone2 },
          pw \in { AccountPasswords.first, AccountPasswords.weak } : Signup(u, p, pw)
    \/ \E tok \in PresentedTokens : RefreshAccessToken(tok)
    \/ \E u \in UserIds, old \in { AccountPasswords.first, AccountPasswords.second },
          new \in { AccountPasswords.second, AccountPasswords.weak } :
          ChangePassword(u, old, new)
    \/ TickLong

SpecAccount == InitSignup /\ [][NextAccount]_vars

-----------------------------------------------------------------------------
(* One authorization request: an identity and the queries made about it *)

Roles == { "system_admin", "company_admin", "accountant", "sales_manager",
           "warehouse_keeper", "salesperson", "viewer", "user" }

CompanyRoleLists ==
    { << >>, << "viewer" >>, << "admin" >>, << "salesperson", "accountant" >>,
      << "superuser" >> }

Subjects ==
    { [ kind |-> "none" ] } \cup
    [ kind : { "user" }, id : { "u1" }, role : Roles,
      company_id : { "null", "T1", "T2" }, is_active : BOOLEAN,
      company_roles : CompanyRoleLists, company_is_active : BOOLEAN ]

\* Permission is a str enum: a member and the string of its value are the same
\* argument. The other strings are no member's value: an unknown name, a
\* member's name, a value in another case, the empty string.
InvalidPermissionStrings == { "invalid.permission", "VIEW_USERS", "Users.View", "" }

PermissionInputs == Permission \cup InvalidPermissionStrings

Queries == { << >>, << Where("is_active", TRUE) >> }

Permissions ==
    /\ answer' = [ op |-> "permissions", value |-> calculate_permissions(subject) ]
    /\ UNCHANGED << users, refresh_tokens, uuid_next, issued, attempts, now, resp,
                    redeemed, login_ids, calls, subject, lim_calls, logged_out,
                    password_changed, products >>

HasPermission(permission) ==
    /\ answer' = [ op |-> "has_permission", arg |-> permission,
                   value |-> has_permission(subject, permission) ]
    /\ UNCHANGED << users, refresh_tokens, uuid_next, issued, attempts, now, resp,
                    redeemed, login_ids, calls, subject, lim_calls, logged_out,
                    password_changed, products >>

CheckerHasPermission(permission) ==
    /\ subject.kind = "user"
    /\ LET r == permission_checker_has_permission(subject, permission)
       IN  answer' = [ op |-> "permission_checker.has_permission", arg |-> permission,
                       raised |-> r.raised, value |-> r.value ]
    /\ UNCHANGED << users, refresh_tokens, uuid_next, issued, attempts, now, resp,
                    redeemed, login_ids, calls, subject, lim_calls, logged_out,
                    password_changed, products >>

RequirePermission(permission, company_id) ==
    /\ subject.kind = "user"
    /\ answer' = [ op |-> "require_permission", arg |-> permission,
                   raised |-> require_permission(subject, permission, company_id) ]
    /\ UNCHANGED << users, refresh_tokens, uuid_next, issued, attempts, now, resp,
                    redeemed, login_ids, calls, subject, lim_calls, logged_out,
                    password_changed, products >>

IsSystemAdmin ==
    /\ answer' = [ op |-> "is_system_admin", value |-> is_system_admin(subject) ]
    /\ UNCHANGED << users, refresh_tokens, uuid_next, issued, attempts, now, resp,
                    redeemed, login_ids, calls, subject, lim_calls, logged_out,
                    password_changed, products >>

GetCompanyContext ==
    /\ subject.kind = "user"
    /\ answer' = [ op |-> "company_context", status |-> CompanyContext(subject).status ]
    /\ UNCHANGED << users, refresh_tokens, uuid_next, issued, attempts, now, resp,
                    redeemed, login_ids, calls, subject, lim_calls, logged_out,
                    password_changed, products >>

EnsureCompanyAccess(resource_company_id) ==
    /\ subject.kind = "user"
    /\ CompanyContext(subject).status = 200
    /\ answer' = [ op |-> "ensure_company_access", arg |-> resource_company_id,
                   status |-> ensure_company_access(CompanyContext(subject),
                                                    resource_company_id) ]
    /\ UNCHANGED << users, refresh_tokens, uuid_next, issued, attempts, now, resp,
                    redeemed, login_ids, calls, subject, lim_calls, logged_out,
                    password_changed, products >>

FilterQueryByCompany(query) ==
    /\ subject.kind = "user"
    /\ CompanyContext(subject).status = 200
    /\ answer' = [ op |-> "filter_query_by_company", arg |-> query,
                   should_filter |-> should_filter(CompanyContext(subject)),
                   value |-> filter_query_by_company(CompanyContext(subject), query) ]
    /\ UNCHANGED << users, refresh_tokens, uuid_next, issued, attempts, now, resp,
                    redeemed, login_ids, calls, subject, lim_calls, logged_out,
                    password_changed, products >>

GetCompanyIdForCreate ==
    /\ subject.kind = "user"
    /\ CompanyContext(subject).status = 200
    /\ answer' = [ op |-> "get_company_id_for_create",
                   status |-> get_company_id_for_create(CompanyContext(subject)).status,
                   value |-> get_company_id_for_create(CompanyContext(subject)).value ]
    /\ UNCHANGED << users, refresh_tokens, uuid_next, issued, attempts, now, resp,
                    redeemed, login_ids, calls, subject, lim_calls, logged_out,
                    password_changed, products >>

InitAuthz ==
    /\ users = SeedUsers
    /\ refresh_tokens = {}
    /\ uuid_next = 1
    /\ issued = {}
    /\ attempts = [ p \in NormPhones |-> << >> ]
    /\ now = 0
    /\ resp = Resp("none", "ok", NoUser, NoId, NoId, 0)
    /\ redeemed = {}
    /\ login_ids = [ u \in UserIds |-> << >> ]
    /\ calls = [ w \in Workers |-> IdleFrame ]
    /\ subject \in Subjects
    /\ answer = NoAnswer
    /\ lim_calls = [ p \in NormPhones |-> << >> ]
    /\ logged_out = {}
    /\ password_changed = {}
    /\ products = {}

NextAuthz ==
    \/ Permissions
    \/ \E p \in PermissionInputs : HasPermission(p)
    \/ IsSystemAdmin
    \/ \E p \in { "users.view", "audit.view" } : CheckerHasPermission(p)
    \/ \E p \in { "users.view", "audit.view" }, c \in { "null", "T1" } :
          RequirePermission(p, c)
    \/ GetCompanyContext
    \/ \E c \in { "null", "T1", "T2" } : EnsureCompanyAccess(c)
    \/ \E q \in Queries : FilterQueryByCompany(q)
    \/ GetCompanyIdForCreate

SpecAuthz == InitAuthz /\ [][NextAuthz]_vars

-----------------------------------------------------------------------------
(* Claims on the refresh-session lifecycle *)

RefreshTokensOf(ids) == { t \in issued : t.type = "refresh" /\ t.token_id \in ids }

\* how a refresh call with a spent token must fail: the signed expiry is
\* checked before the store is consulted
SpentFailure(t) == IF t.exp <= now THEN "TokenExpired" ELSE "InvalidToken"

NewIdDiffers ==
    (resp.op = "refresh" /\ resp.outcome = "ok") => resp.new_id # resp.presented

\* C1 (original): once refresh_access_token has succeeded with a token, every
\* later refresh with that token fails with InvalidToken, and the token the
\* successful call returned carries a token_id different from the presented one.
C1_RedeemedFailsInvalidToken ==
    /\ \A t \in RefreshTokensOf(redeemed) :
          refresh_outcome(refresh_tokens, t, now) = "InvalidToken"
    /\ NewIdDiffers

\* C1 (amended): once refresh_access_token has succeeded with a token, every
\* later refresh with that token fails: with InvalidToken while the token's
\* signed expiry has not passed, with TokenExpired afterwards; the token the
\* successful call returned carries a different token_id.
C1_RedeemedNeverAgain ==
    /\ \A t \in RefreshTokensOf(redeemed) :
          refresh_outcome(refresh_tokens, t, now) = SpentFailure(t)
    /\ NewIdDiffers

\* a redeemed token was presented again and refused
C1_Witness ==
    /\ resp.op = "refresh"
    /\ resp.outcome = "InvalidToken"
    /\ resp.presented \in redeemed

SetOf(seq) == { seq[i] : i \in 1..Len(seq) }

JustLoggedIn == resp.op = "login" /\ resp.outcome = "ok"

EarlierLoginTokens == RefreshTokensOf(SetOf(login_ids[resp.user]) \ { resp.new_id })

LoginRevokedAll ==
    /\ \A r \in refresh_tokens :
          (r.user_id = resp.user /\ r.token_id # resp.new_id) => r.revoked_at # NoTime
    /\ \A t \in RefreshTokensOf({ resp.new_id }) :
          refresh_outcome(refresh_tokens, t, now) = "ok"

\* C2 (original): when a login has just succeeded, every other record of the
\* identity is revoked, refresh with the token of any earlier login of the
\* identity fails with InvalidToken, and refresh with the new token succeeds.
C2_EarlierLoginInvalidToken ==
    JustLoggedIn =>
        /\ LoginRevokedAll
        /\ \A t \in EarlierLoginTokens :
              refresh_outcome(refresh_tokens, t, now) = "InvalidToken"

\* C2 (amended): the same, except that the earlier login's token fails with
\* TokenExpired instead of InvalidToken once its own signed expiry has passed.
C2_LoginRevokesEarlier ==
    JustLoggedIn =>
        /\ LoginRevokedAll
        /\ \A t \in EarlierLoginTokens :
              refresh_outcome(refresh_tokens, t, now) = SpentFailure(t)

\* the second of two successful logins of one identity has just returned
C2_Witness == JustLoggedIn /\ Len(login_ids[resp.user]) >= 2

\* C3: of two interleaved refresh_access_token calls with the same token at
\* most one succeeds.
C3_AtMostOneWinner ==
    \A w1, w2 \in Workers :
        ( /\ w1 # w2
          /\ calls[w1].pc = "done" /\ calls[w1].outcome = "ok"
          /\ calls[w2].pc = "done" /\ calls[w2].outcome = "ok" )
        => calls[w1].token # calls[w2].token

ActiveRows(user_id) ==
    { r \in refresh_tokens :
        r.user_id = user_id /\ r.revoked_at = NoTime /\ ~(r.expires_at < now) }

\* C4: with calls executed one at a time, every identity has at most one
\* non-revoked, non-expired record, and exactly one right after a successful
\* login or refresh of that identity.
C4_SingleSession ==
    /\ \A u \in DOMAIN users : Cardinality(ActiveRows(u)) <= 1
    /\ (resp.op \in { "login", "refresh" } /\ resp.outcome = "ok")
          => Cardinality(ActiveRows(resp.user)) = 1

\* a refresh has just rotated the session: one live record beside a revoked one
C4_Witness ==
    /\ resp.op = "refresh" /\ resp.outcome = "ok"
    /\ \E r \in refresh_tokens : r.user_id = resp.user /\ r.revoked_at # NoTime
    /\ Cardinality(ActiveRows(resp.user)) = 1

-----------------------------------------------------------------------------
(* Claims on tenant isolation *)

IsUser == subject.kind = "user"

NonAdmin == IsUser /\ subject.role # "system_admin"

PlatformAdmin == IsUser /\ subject.role = "system_admin"

\* C5: for a non-admin identity bound to a tenant, ensure_company_access
\* answers 403 for every other tenant and for a null resource tenant and
\* returns for the identity's own tenant; for a platform admin it returns for
\* every tenant value, null included.
C5_EnsureCompanyAccess ==
    answer.op = "ensure_company_access" =>
        /\ NonAdmin =>
              /\ subject.company_id # "null"
              /\ answer.status = IF answer.arg = subject.company_id THEN 200 ELSE 403
        /\ PlatformAdmin => answer.status = 200

\* a tenant-bound identity was refused a resource that has no tenant
C5_Witness ==
    /\ answer.op = "ensure_company_access"
    /\ NonAdmin
    /\ answer.arg = "null"
    /\ answer.status = 403

\* C6: for a non-admin identity should_filter is true and
\* filter_query_by_company returns the query with exactly one more constraint,
\* the equality of the tenant field with the identity's tenant; for a platform
\* admin should_filter is false and the query comes back unchanged.
C6_FilterQueryByCompany ==
    answer.op = "filter_query_by_company" =>
        /\ answer.should_filter = NonAdmin
        /\ NonAdmin =>
              /\ Len(answer.value) = Len(answer.arg) + 1
              /\ SubSeq(answer.value, 1, Len(answer.arg)) = answer.arg
              /\ answer.value[Len(answer.value)] =
                    [ field |-> "company_id", op |-> "==", value |-> subject.company_id ]
        /\ PlatformAdmin => answer.value = answer.arg

\* a non-admin's query that already had a constraint came back scoped
C6_Witness ==
    /\ answer.op = "filter_query_by_company"
    /\ NonAdmin
    /\ Len(answer.arg) = 1
    /\ Len(answer.value) = 2

-----------------------------------------------------------------------------
(* Claims on permission resolution *)

Denied == subject.kind = "none" \/ ~subject.is_active

\* C7: for a null identity and for every identity with is_active false,
\* system_admin included, the computed permission set is empty and
\* has_permission is false for every permission.
C7_DefaultDeny ==
    Denied =>
        /\ answer.op = "permissions" => answer.value = {}
        /\ answer.op = "has_permission" => answer.value = FALSE

\* an inactive system_admin was asked for and got nothing
C7_Witness ==
    /\ IsUser /\ subject.role = "system_admin" /\ ~subject.is_active
    /\ answer.op = "permissions"
    /\ answer.value = {}

\* C23: has_permission with a string that is the value of a catalog
\* permission answers whether that permission is in the identity's permission
\* set, as it does for the enum member; with any other string it returns
\* false, for every identity (system_admin included), and does not raise.
C23_StringPermission ==
    answer.op = "has_permission" =>
        /\ answer.value \in BOOLEAN
        /\ answer.arg \in Permission =>
              (answer.value <=> answer.arg \in calculate_permissions(subject))
        /\ answer.arg \notin Permission => answer.value = FALSE

\* an active system_admin was asked for a string that is a member's name, not
\* its value, and was refused
C23_Witness ==
    /\ IsUser /\ subject.role = "system_admin" /\ subject.is_active
    /\ answer.op = "has_permission"
    /\ answer.arg = "VIEW_USERS"
    /\ answer.value = FALSE

\* C24: is_system_admin is true exactly for a non-null identity whose role
\* is system_admin, whatever its active flag and its permission set are: for
\* an inactive system_admin it is true while the permission set is empty.
C24_IsSystemAdmin ==
    answer.op = "is_system_admin" =>
        /\ answer.value <=> (subject.kind # "none" /\ subject.role = "system_admin")
        /\ (IsUser /\ subject.role = "system_admin" /\ ~subject.is_active)
              => (answer.value /\ calculate_permissions(subject) = {})

\* is_system_admin answered true for an inactive system_admin
C24_Witness ==
    /\ IsUser /\ subject.role = "system_admin" /\ ~subject.is_active
    /\ answer.op = "is_system_admin"
    /\ answer.value
    /\ calculate_permissions(subject) = {}

ViewPermissions ==
    { "users.view", "products.view", "invoices.view", "purchases.view",
      "warehouse.view", "reports.view" }

\* every create, edit and delete permission of the catalog
WritePermissions ==
    { d \o "." \o a : d \in { "users", "companies", "products", "invoices", "purchases" },
                      a \in { "create", "edit", "delete" } }

\* C26: an active identity whose one role is viewer is granted the view
\* permission on users, products, invoices, purchases, warehouse and reports
\* and no create, edit or delete permission.
C26_ViewerPermissions ==
    ( /\ IsUser /\ subject.is_active
      /\ subject.role = "viewer" /\ subject.company_roles = << >>
      /\ answer.op = "has_permission" )
    => /\ answer.arg \in ViewPermissions => answer.value
       /\ answer.arg \in WritePermissions => ~answer.value

\* the permissions the claim names for a company admin
CompanyAdminGrants ==
    { "users.view", "users.edit", "users.create", "users.delete",
      "products.view", "products.create", "products.edit", "products.delete",
      "invoices.view", "invoices.create", "warehouse.view", "warehouse.manage" }

CompanyAdminDenials ==
    { "companies.view", "companies.create", "companies.edit", "companies.delete",
      "settings.edit" }

\* C27: an active identity with role company_admin is granted users.view,
\* users.edit, users.create, users.delete and the product, invoice and
\* warehouse management permissions, is denied every companies.* permission
\* and settings.edit, and is no system admin. The identity is taken with the
\* company role admin, the richest set the tables hold for it.
C27_CompanyAdminPermissions ==
    ( /\ IsUser /\ subject.is_active
      /\ subject.role = "company_admin" /\ subject.company_roles = << "admin" >> )
    => /\ answer.op = "has_permission" =>
             /\ answer.arg \in CompanyAdminGrants => answer.value
             /\ answer.arg \in CompanyAdminDenials => ~answer.value
       /\ answer.op = "is_system_admin" => ~answer.value

\* the set mapped to a role, read generously: the role's entry in either table
\* (company_admin names the company role admin)
MappedToRole(role) ==
    get_permissions_for_system_role(role)
        \cup get_permissions_for_company_role(IF role = "company_admin" THEN "admin" ELSE role)

\* C8: for an active non-admin identity the computed permission set lies
\* within the set mapped to its role; for an active system_admin it is the
\* whole of Permission.
C8_WithinRole ==
    (answer.op = "permissions" /\ IsUser /\ subject.is_active) =>
        IF subject.role = "system_admin"
        THEN answer.value = Permission
        ELSE answer.value \subseteq MappedToRole(subject.role)

\* C9: an active identity whose company is inactive has an empty permission
\* set.
C9_InactiveCompanyDenied ==
    ( /\ answer.op = "permissions"
      /\ IsUser /\ subject.is_active
      /\ subject.company_id # "null" /\ ~subject.company_is_active )
    => answer.value = {}

-----------------------------------------------------------------------------
(* Claims on the login rate limit *)

\* the position of the last reset before event i of a history, 0 if none
LastReset(h, i) ==
    LET rs == { j \in 1..(i - 1) : h[j].kind = "reset" }
    IN  IF rs = {} THEN 0 ELSE CHOOSE j \in rs : \A k \in rs : k <= j

\* C10: for one phone number, counting the check_rate_limit calls since the
\* last reset (or the start), while they all fall within one 60-minute window
\* the calls 1 to 5 pass and call 6 fails with RateLimitExceeded and a
\* retry_after above zero; the first call after a reset passes.
C10_RateLimit ==
    \A p \in DOMAIN lim_calls :
        \A i \in 1..Len(lim_calls[p]) :
            LET h == lim_calls[p]
                n == i - LastReset(h, i)
                first == h[LastReset(h, i) + 1]
            IN  (h[i].kind = "check"
                    /\ first.t > h[i].t - LOGIN_RATE_LIMIT_WINDOW_MINUTES) =>
                    /\ n <= LOGIN_RATE_LIMIT_ATTEMPTS => h[i].ok
                    /\ n = LOGIN_RATE_LIMIT_ATTEMPTS + 1 =>
                          ~h[i].ok /\ h[i].retry_after > 0

\* five calls passed, the sixth was refused, reset was called, the next passed
C10_Witness ==
    \E p \in DOMAIN lim_calls :
        LET h == lim_calls[p]
        IN  /\ Len(h) = 8
            /\ \A i \in 1..5 : h[i].kind = "check" /\ h[i].ok
            /\ h[6].kind = "check" /\ ~h[6].ok /\ h[6].retry_after > 0
            /\ h[7].kind = "reset"
            /\ h[8].kind = "check" /\ h[8].ok
            /\ h[8].t = h[1].t

-----------------------------------------------------------------------------
(* Claims on login failures *)

\* the phone number and the password of the login call resp reports
LoginPhone(r) == r.presented[1]
LoginPassword(r) == r.presented[2]

\* the call was made with a phone number of no user, or with a wrong password
BadCredentials(r) ==
    \/ get_by_phone(LoginPhone(r)) = NoUser
    \/ ~verify_password(LoginPassword(r), users[get_by_phone(LoginPhone(r))].hashed_password)

InWindow(stamps, t) ==
    SelectSeq(stamps, LAMBDA ts : ts > t - LOGIN_RATE_LIMIT_WINDOW_MINUTES)

\* C11: a login that passes the limiter with a phone number of no user and a
\* login with a known phone number and a wrong password end the same way: the
\* response is InvalidCredentials with nothing else in it, one attempt is
\* recorded for the phone number, and no other stored state changes.
C11_NoEnumeration ==
    [][ ( /\ resp'.op = "login"
          /\ resp'.outcome # "RateLimitExceeded"
          /\ BadCredentials(resp') )
        => /\ resp' = Resp("login", "InvalidCredentials", NoUser, resp'.presented, NoId, 0)
           /\ attempts' = [attempts EXCEPT ![LoginPhone(resp')] =
                              Append(InWindow(@, now), now)]
           /\ UNCHANGED << users, refresh_tokens, uuid_next, issued >> ]_vars

\* a login with an unknown phone number has just been refused, after failed
\* logins with a known one
C11_Witness ==
    /\ resp.op = "login"
    /\ resp.outcome = "InvalidCredentials"
    /\ get_by_phone(LoginPhone(resp)) = NoUser
    /\ attempts[Phone1] # << >>

-----------------------------------------------------------------------------
(* Claims on logout *)

C13_LoggedOutInvalidToken ==
    \A t \in RefreshTokensOf(logged_out) :
        refresh_outcome(refresh_tokens, t, now) = "InvalidToken"

\* C13 (amended): after such a logout every later refresh with the token
\* fails: with InvalidToken while the token's signed expiry has not passed,
\* with TokenExpired afterwards.
C13_LoggedOutNeverAgain ==
    \A t \in RefreshTokensOf(logged_out) :
        refresh_outcome(refresh_tokens, t, now) = SpentFailure(t)

\* a token that logout had revoked was presented to refresh and refused
C13_Witness ==
    /\ resp.op = "refresh"
    /\ resp.outcome = "InvalidToken"
    /\ resp.presented \in logged_out

-----------------------------------------------------------------------------
(* Claims on the authentication of a request *)

\* the credentials are a validly signed, unexpired token of type access
GoodAccessToken(c) ==
    /\ c # NoCredentials
    /\ c.sig = "HS256"
    /\ c.exp > now
    /\ c.type = "access"

\* C14: get_current_user returns an identity exactly for a validly signed,
\* unexpired token of type access whose user_id names a stored user that is
\* active now, and it returns that user; the is_active claim inside the token
\* plays no part, so the tokens of a deactivated or deleted user are refused.
C14_CurrentUser ==
    resp.op = "get_current_user" =>
        /\ resp.outcome = "ok" <=>
              /\ GoodAccessToken(resp.presented)
              /\ resp.presented.user_id \in DOMAIN users
              /\ users[resp.presented.user_id].is_active
        /\ resp.outcome = "ok" => resp.user = resp.presented.user_id

\* an unexpired access token that says is_active was refused because its
\* user has been deactivated since
C14_Witness ==
    /\ resp.op = "get_current_user"
    /\ resp.outcome = "401"
    /\ GoodAccessToken(resp.presented)
    /\ resp.presented.is_active
    /\ resp.presented.user_id \in DOMAIN users
    /\ ~users[resp.presented.user_id].is_active

\* the login call resp reports named a stored user that is inactive
InactiveHandle(r) ==
    /\ get_by_phone(LoginPhone(r)) # NoUser
    /\ ~users[get_by_phone(LoginPhone(r))].is_active

PasswordMatches(r) ==
    verify_password(LoginPassword(r), users[get_by_phone(LoginPhone(r))].hashed_password)

\* no login has handed a token pair to a user that was inactive: login does
\* not change is_active, so the flag after the call is the flag it read
NoTokenForInactive ==
    (resp.op = "login" /\ resp.outcome = "ok") => users[resp.user].is_active

\* C22 (original): login fails with AccountDeactivated exactly when the phone
\* number is stored, the password matches and the user is inactive; an
\* inactive user with a wrong password gets InvalidCredentials; login issues
\* no token to an inactive user.
C22_DeactivatedExactly ==
    resp.op = "login" =>
        /\ resp.outcome = "AccountDeactivated"
              <=> (InactiveHandle(resp) /\ PasswordMatches(resp))
        /\ (InactiveHandle(resp) /\ ~PasswordMatches(resp))
              => resp.outcome = "InvalidCredentials"
        /\ NoTokenForInactive

\* C22 (amended): the same for every login the rate limiter lets through; a
\* login the limiter rejects fails with RateLimitExceeded whatever the
\* password and the active flag are.
C22_DeactivatedUnlessLimited ==
    resp.op = "login" =>
        /\ resp.outcome = "AccountDeactivated"
              => (InactiveHandle(resp) /\ PasswordMatches(resp))
        /\ (InactiveHandle(resp) /\ PasswordMatches(resp))
              => resp.outcome \in { "AccountDeactivated", "RateLimitExceeded" }
        /\ (InactiveHandle(resp) /\ ~PasswordMatches(resp))
              => resp.outcome \in { "InvalidCredentials", "RateLimitExceeded" }
        /\ resp.outcome = "RateLimitExceeded"
              <=> Len(attempts[LoginPhone(resp)]) >= LOGIN_RATE_LIMIT_ATTEMPTS
                  /\ resp.retry_after > 0
        /\ NoTokenForInactive

\* an inactive user logged in with the right password and was refused with
\* AccountDeactivated while a token pair of an earlier login is outstanding
C22_Witness ==
    /\ resp.op = "login"
    /\ resp.outcome = "AccountDeactivated"
    /\ InactiveHandle(resp) /\ PasswordMatches(resp)
    /\ login_ids[get_by_phone(LoginPhone(resp))] # << >>

\* C31: a login that passes the limiter and fails (unknown phone number,
\* wrong password, deactivated account) adds one attempt for the phone
\* number; only a successful login clears the attempts; a login made while
\* the phone number has 5 attempts inside the window fails with
\* RateLimitExceeded, with the right password of an active user too, adds no
\* attempt and leaves users and refresh_tokens as they were.
C31_EveryAttemptCounted ==
    [][ resp'.op = "login" =>
          LET p == LoginPhone(resp')
              counted == InWindow(attempts[p], now)
          IN  /\ Len(counted) >= LOGIN_RATE_LIMIT_ATTEMPTS
                    <=> resp'.outcome = "RateLimitExceeded"
              /\ resp'.outcome = "RateLimitExceeded" =>
                    /\ attempts'[p] = counted
                    /\ UNCHANGED << users, refresh_tokens, uuid_next, issued >>
              /\ resp'.outcome \in { "InvalidCredentials", "AccountDeactivated" } =>
                    attempts'[p] = Append(counted, now)
              /\ attempts'[p] = << >> <=> resp'.outcome = "ok" ]_vars

\* an active user was refused with RateLimitExceeded although the password
\* was right, while a record of an earlier login of it is still live
C31_Witness ==
    /\ resp.op = "login"
    /\ resp.outcome = "RateLimitExceeded"
    /\ ~BadCredentials(resp)
    /\ users[get_by_phone(LoginPhone(resp))].is_active
    /\ \E r \in refresh_tokens : r.revoked_at = NoTime

-----------------------------------------------------------------------------
(* Products (features/product, core/base_repository.py): one caller, whose
   CompanyContext every service call receives *)

MaxProducts == 2

\* rows of two tenants; both tenants use the SKU "A"
SeedProducts ==
    { [ id |-> 1, company_id |-> "T1", sku |-> "A", name |-> << "P", "e", "n" >>,
        stock_quantity |-> 5, reorder_level |-> 10, is_active |-> TRUE ],
      [ id |-> 2, company_id |-> "T2", sku |-> "A", name |-> << "p", "a", "d" >>,
        stock_quantity |-> 50, reorder_level |-> 10, is_active |-> TRUE ] }

ProductSubjects ==
    { [ kind |-> "user", id |-> "u1", role |-> r[1], company_id |-> r[2],
        is_active |-> TRUE, company_roles |-> << >>, company_is_active |-> TRUE ] :
      r \in { << "salesperson", "T1" >>, << "company_admin", "T2" >>,
              << "system_admin", "null" >> } }

\* db.execute(query): the rows that satisfy every WHERE condition of the
\* query; the search terms of the model hold letters only, no LIKE wildcard
execute(tbl, query) ==
    LET lower(c) == CASE c = "P" -> "p" [] c = "A" -> "a" [] OTHER -> c
        lowered(str) == [ i \in 1..Len(str) |-> lower(str[i]) ]
        ilike(str, term) ==
            \E i \in 0..(Len(str) - Len(term)) :
                SubSeq(lowered(str), i + 1, i + Len(term)) = lowered(term)
        holds(r, cond) ==
            CASE cond.op = "==" -> r[cond.field] = cond.value
              [] cond.op = "ilike" -> ilike(r[cond.field], cond.value)
              [] cond.op = "<=" -> r[cond.field] <= r[cond.value]
    IN  { r \in tbl : \A i \in 1..Len(query) : holds(r, query[i]) }

\* Result.scalar_one_or_none()
scalar_one_or_none(rows) ==
    IF Cardinality(rows) > 1
    THEN [ raised |-> "MultipleResultsFound", value |-> {} ]
    ELSE [ raised |-> "none", value |-> rows ]

ProductFrame ==
    UNCHANGED << users, refresh_tokens, issued, attempts, now, resp, redeemed,
                 login_ids, calls, subject, lim_calls, logged_out, password_changed >>

\* ProductService.get_product -> get_by_id_for_company
GetProduct(product_id) ==
    /\ LET ctx == CompanyContext(subject)
           found == scalar_one_or_none(execute(products,
                        filter_query_by_company(ctx, << Where("id", product_id) >>)))
       IN  answer' = [ op |-> "get_product", arg |-> product_id,
                       raised |-> IF found.raised # "none" THEN found.raised
                                  ELSE IF found.value = {} THEN "ProductNotFound"
                                  ELSE "none",
                       value |-> found.value ]
    /\ UNCHANGED << products, uuid_next >>
    /\ ProductFrame

\* ProductService.list_products -> get_all_for_company, default paging
ListProducts ==
    /\ LET ctx == CompanyContext(subject)
       IN  answer' = [ op |-> "list_products", arg |-> "none", raised |-> "none",
                       value |-> execute(products, filter_query_by_company(ctx, << >>)) ]
    /\ UNCHANGED << products, uuid_next >>
    /\ ProductFrame

\* ProductService.search_products -> ProductRepository.search_products
SearchProducts(search_term) ==
    /\ LET ctx == CompanyContext(subject)
           query == << [ field |-> "name", op |-> "ilike", value |-> search_term ] >>
       IN  answer' = [ op |-> "search_products", arg |-> search_term, raised |-> "none",
                       value |-> execute(products, filter_query_by_company(ctx, query)) ]
    /\ UNCHANGED << products, uuid_next >>
    /\ ProductFrame

\* ProductService.get_low_stock_products -> ProductRepository.get_low_stock_products
GetLowStockProducts ==
    /\ LET ctx == CompanyContext(subject)
           query == << [ field |-> "stock_quantity", op |-> "<=", value |-> "reorder_level" ],
                       Where("is_active", TRUE) >>
       IN  answer' = [ op |-> "get_low_stock_products", arg |-> "none", raised |-> "none",
                       value |-> execute(products, filter_query_by_company(ctx, query)) ]
    /\ UNCHANGED << products, uuid_next >>
    /\ ProductFrame

\* ProductService.create_product; stock_quantity, reorder_level and is_active
\* take their defaults
CreateProduct(name, sku, company_id) ==
    /\ uuid_next <= Cardinality(SeedProducts) + MaxProducts
    /\ LET ctx == CompanyContext(subject)
           target_company_id == IF ctx.is_system_admin THEN company_id ELSE ctx.company_id
           existing == scalar_one_or_none(execute(products,
                           filter_query_by_company(ctx, << Where("sku", sku) >>)))
           product == [ id |-> uuid_next, company_id |-> target_company_id, sku |-> sku,
                        name |-> name, stock_quantity |-> 0, reorder_level |-> 10,
                        is_active |-> TRUE ]
           raised == IF ctx.is_system_admin /\ company_id = "null" THEN "ValueError"
                     ELSE IF existing.raised # "none" THEN existing.raised
                     ELSE IF existing.value # {} THEN "ProductAlreadyExists"
                     ELSE "none"
       IN  /\ answer' = [ op |-> "create_product", arg |-> company_id, raised |-> raised,
                          value |-> IF raised = "none" THEN { product } ELSE {} ]
           /\ products' = IF raised = "none" THEN products \cup { product } ELSE products
           /\ uuid_next' = IF raised = "none" THEN uuid_next + 1 ELSE uuid_next
    /\ ProductFrame

\* ProductService.update_product; changes holds the keyword arguments that are
\* not None
UpdateProduct(product_id, changes) ==
    /\ LET ctx == CompanyContext(subject)
           found == scalar_one_or_none(execute(products,
                        filter_query_by_company(ctx, << Where("id", product_id) >>)))
           product == CHOOSE r \in found.value : TRUE
           existing == scalar_one_or_none(execute(products,
                           filter_query_by_company(ctx, << Where("sku", changes.sku) >>)))
           raised == IF found.raised # "none" THEN found.raised
                     ELSE IF found.value = {} THEN "ProductNotFound"
                     ELSE IF "sku" \in DOMAIN changes /\ changes.sku # product.sku
                          THEN IF existing.raised # "none" THEN existing.raised
                               ELSE IF existing.value # {} THEN "ProductAlreadyExists"
                               ELSE "none"
                     ELSE "none"
           updated == [ f \in DOMAIN product |->
                          IF f \in DOMAIN changes THEN changes[f] ELSE product[f] ]
       IN  /\ answer' = [ op |-> "update_product", arg |-> product_id, raised |-> raised,
                          value |-> IF raised = "none" THEN { updated } ELSE {} ]
           /\ products' = IF raised = "none"
                          THEN (products \ { product }) \cup { updated }
                          ELSE products
    /\ UNCHANGED uuid_next
    /\ ProductFrame

\* ProductService.delete_product
DeleteProduct(product_id) ==
    /\ LET ctx == CompanyContext(subject)
           found == scalar_one_or_none(execute(products,
                        filter_query_by_company(ctx, << Where("id", product_id) >>)))
           raised == IF found.raised # "none" THEN found.raised
                     ELSE IF found.value = {} THEN "ProductNotFound"
                     ELSE "none"
       IN  /\ answer' = [ op |-> "delete_product", arg |-> product_id, raised |-> raised,
                          value |-> {} ]
           /\ products' = IF raised = "none" THEN products \ found.value ELSE products
    /\ UNCHANGED uuid_next
    /\ ProductFrame

InitProduct ==
    /\ users = SeedUsers
    /\ refresh_tokens = {}
    /\ uuid_next = Cardinality(SeedProducts) + 1
    /\ issued = {}
    /\ attempts = [ p \in NormPhones |-> << >> ]
    /\ now = 0
    /\ resp = Resp("none", "ok", NoUser, NoId, NoId, 0)
    /\ redeemed = {}
    /\ login_ids = [ u \in UserIds |-> << >> ]
    /\ calls = [ w \in Workers |-> IdleFrame ]
    /\ subject \in ProductSubjects
    /\ answer = NoAnswer
    /\ lim_calls = [ p \in NormPhones |-> << >> ]
    /\ logged_out = {}
    /\ password_changed = {}
    /\ products = SeedProducts

NextProduct ==
    \/ \E id \in 1..(Cardinality(SeedProducts) + MaxProducts) : GetProduct(id)
    \/ ListProducts
    \/ \E term \in { << "p" >>, << "A", "d" >> } : SearchProducts(term)
    \/ GetLowStockProducts
    \/ \E name \in { << "c", "a", "p" >> }, sku \in { "A", "B" },
          company_id \in { "null", "T1", "T2" } : CreateProduct(name, sku, company_id)
    \/ \E id \in 1..(Cardinality(SeedProducts) + MaxProducts),
          changes \in { [ sku |-> "B" ], [ stock_quantity |-> 20 ],
                        [ sku |-> "A", is_active |-> FALSE ] } : UpdateProduct(id, changes)
    \/ \E id \in 1..(Cardinality(SeedProducts) + MaxProducts) : DeleteProduct(id)

SpecProduct == InitProduct /\ [][NextProduct]_vars

-----------------------------------------------------------------------------
(* Claims on interleaved login calls *)

\* the check_rate_limit calls of history h that passed after the last reset
\* before position i and inside the window that ends at time t
PassedSinceReset(h, i, t) ==
    { j \in (LastReset(h, i) + 1)..(i - 1) :
        /\ h[j].kind = "check" /\ h[j].ok
        /\ h[j].t > t - LOGIN_RATE_LIMIT_WINDOW_MINUTES }

InFlight(w) == calls[w].pc \notin { "idle", "done" }

\* C32: however login calls for one phone number interleave, at most 5
\* check_rate_limit calls pass between two resets inside one window, and the
\* stored attempts are exactly the calls that passed since the last reset: none
\* is lost and none is stored twice.
C32_NoLostAttempt ==
    \A p \in DOMAIN lim_calls :
        LET h == lim_calls[p]
        IN  /\ \A i \in 1..(Len(h) + 1) :
                  Cardinality(PassedSinceReset(h, i, IF i <= Len(h) THEN h[i].t ELSE now))
                      <= LOGIN_RATE_LIMIT_ATTEMPTS
            /\ Len(InWindow(attempts[p], now))
                  = Cardinality(PassedSinceReset(h, Len(h) + 1, now))

\* a call was refused at the limiter while another call for the same phone
\* number, which had passed it, was suspended at an await
C32_Witness ==
    \E p \in DOMAIN lim_calls, w \in Workers :
        /\ Len(lim_calls[p]) > LOGIN_RATE_LIMIT_ATTEMPTS
        /\ ~lim_calls[p][Len(lim_calls[p])].ok
        /\ InFlight(w)
        /\ calls[w].token[1] = p

\* C34: once two interleaved login calls of one user with the right password
\* have both returned, the user has at most one non-revoked record.
C34_OneSessionAfterRace ==
    ( \A w \in Workers : calls[w].pc = "done" /\ calls[w].outcome = "ok" )
    => \A u \in UserIds :
          Cardinality({ r \in refresh_tokens : r.user_id = u /\ r.revoked_at = NoTime }) <= 1

\* C37: a check_rate_limit call that was refused is not recorded: a call
\* passes exactly when fewer than 5 calls that passed since the last reset lie
\* inside the window that ends at the call, however many calls were refused in
\* between, and the attempts kept for a phone number are those calls only.
C37_RefusedNotRecorded ==
    \A p \in DOMAIN lim_calls :
        LET h == lim_calls[p]
        IN  /\ \A i \in 1..Len(h) :
                  h[i].kind = "check"
                  => ( h[i].ok <=> Cardinality(PassedSinceReset(h, i, h[i].t))
                                      < LOGIN_RATE_LIMIT_ATTEMPTS )
            /\ \A k \in 1..Len(attempts[p]) :
                  \E j \in 1..Len(h) : h[j].t = attempts[p][k]
            /\ \A ts \in { h[j].t : j \in 1..Len(h) } :
                  Cardinality({ k \in 1..Len(attempts[p]) :
                                  attempts[p][k] = ts /\ ts > now - LOGIN_RATE_LIMIT_WINDOW_MINUTES })
                    = Cardinality({ j \in PassedSinceReset(h, Len(h) + 1, now) : h[j].t = ts })

\* five calls passed, two calls were refused at different times, and the next
\* call passed without a reset once the five had left the window
C37_Witness ==
    \E p \in DOMAIN lim_calls :
        LET h == lim_calls[p]
        IN  \E i, j, k \in 1..Len(h) :
               /\ LOGIN_RATE_LIMIT_ATTEMPTS < i /\ i < j /\ j < k
               /\ \A m \in 1..k : h[m].kind = "check"
               /\ \A m \in 1..LOGIN_RATE_LIMIT_ATTEMPTS : h[m].ok
               /\ ~h[i].ok /\ ~h[j].ok /\ h[i].t < h[j].t
               /\ h[k].ok

-----------------------------------------------------------------------------
(* Claims on the function-style permission checks *)

\* C38: for every user with is_active = false, whatever the role,
\* permission_checker.has_permission returns false and require_permission
\* raises PermissionDenied.
C38_CheckerDefaultDeny ==
    (subject.kind = "user" /\ ~subject.is_active)
    => /\ answer.op = "permission_checker.has_permission"
             => answer.raised = "none" /\ answer.value = FALSE
       /\ answer.op = "require_permission"
             => answer.raised = "PermissionDenied"

-----------------------------------------------------------------------------
(* Claims on the products of a tenant *)

\* C39: for a caller that is no system admin and belongs to tenant T, every
\* product that get, list, search and low-stock return belongs to T, update
\* and delete leave the products of other tenants as they are, and a product
\* the caller creates is stored under T whatever company_id was passed.
C39_ProductsStayInTenant ==
    [][ subject.role # "system_admin"
        => /\ answer'.op \in { "get_product", "list_products", "search_products",
                               "get_low_stock_products" }
                 => \A r \in answer'.value : r.company_id = subject.company_id
           /\ \A r \in products : r.company_id # subject.company_id => r \in products'
           /\ \A r \in products' \ products : r.company_id = subject.company_id
           /\ (answer'.op = "create_product" /\ answer'.raised = "none")
                 => \A r \in answer'.value :
                       r.company_id = subject.company_id /\ r \in products' ]_vars

\* a caller of tenant T1 passed company_id T2 and the product was stored under
\* T1, while a product of T2 exists
C39_Witness ==
    /\ subject.role # "system_admin"
    /\ subject.company_id = "T1"
    /\ answer.op = "create_product"
    /\ answer.arg = "T2"
    /\ answer.raised = "none"
    /\ \E r \in answer.value : r \in products /\ r.company_id = "T1"
    /\ \E r \in products : r.company_id = "T2"

-----------------------------------------------------------------------------
(* Claims on the life of a refresh-token record *)

\* C33: once revoked_at of a record is set, no later call changes or clears
\* it, and get_by_token_id never returns the record again.
C33_RevokedAtWriteOnce ==
    [][ \A r \in refresh_tokens :
          r.revoked_at # NoTime
          => /\ r \in refresh_tokens'
             /\ get_by_token_id(refresh_tokens', r.token_id) = {} ]_vars

\* C35: delete_expired removes exactly the records whose expires_at lies in
\* the past, revoked or not, returns their number, leaves the other records as
\* they were, and makes no refresh token redeemable that was not before.
C35_SweepExpiredOnly ==
    [][ resp'.op = "delete_expired"
        => /\ refresh_tokens' = { r \in refresh_tokens : ~(r.expires_at < now) }
           /\ resp'.new_id = Cardinality({ r \in refresh_tokens : r.expires_at < now })
           /\ \A tok \in issued :
                 refresh_outcome(refresh_tokens', tok, now) = "ok"
                 => refresh_outcome(refresh_tokens, tok, now) = "ok" ]_vars

\* a sweep removed a record and kept another one, which has been revoked
C35_Witness ==
    /\ resp.op = "delete_expired"
    /\ resp.new_id >= 1
    /\ \E r \in refresh_tokens : r.revoked_at # NoTime

\* C36: once delete_user has removed a user, no refresh-token record of that
\* user remains, refresh_access_token refuses every refresh token issued to
\* it, and get_current_user refuses every access token issued to it.
C36_DeletedUserLockedOut ==
    \A tok \in issued :
        tok.user_id \notin DOMAIN users
        => /\ \A r \in refresh_tokens : r.user_id # tok.user_id
           /\ tok.type = "refresh"
                 => refresh_outcome(refresh_tokens, tok, now) # "ok"
           /\ tok.type = "access"
                 => get_current_user(tok, now).status = 401

\* an unexpired access token of a deleted user was presented and refused
C36_Witness ==
    /\ resp.op = "get_current_user"
    /\ resp.presented \in issued
    /\ resp.presented.type = "access"
    /\ resp.presented.exp > now
    /\ resp.presented.user_id \notin DOMAIN users
    /\ resp.outcome = "401"

\* C40: revoking a refresh-token record revokes no access token: after a
\* logout, a newer login or a rotation by refresh, get_current_user accepts
\* every issued access token that has not reached its exp, as long as its
\* user exists and is active.
C40_AccessTokenOutlivesSession ==
    \A a \in issued :
        ( /\ a.type = "access"
          /\ a.exp > now
          /\ a.user_id \in DOMAIN users
          /\ users[a.user_id].is_active )
        => /\ get_current_user(a, now).status = 200
           /\ get_current_user(a, now).user = a.user_id

\* after a logout the user has no live record, and the access token of that
\* session is still accepted
C40_Witness ==
    /\ resp.op = "logout"
    /\ logged_out # {}
    /\ \E a \in issued :
          /\ a.type = "access"
          /\ \E r \in refresh_tokens : r.user_id = a.user_id
          /\ \A r \in refresh_tokens : r.user_id = a.user_id => r.revoked_at # NoTime
          /\ get_current_user(a, now).status = 200

-----------------------------------------------------------------------------
(* Claims on the effects of login and refresh *)

Revoked(tbl, token_id) ==
    \A r \in tbl : r.token_id = token_id => r.revoked_at # NoTime

\* the record of the pair just issued is in the table, new and not revoked
StoredNew(token_id) ==
    /\ \A r \in refresh_tokens : r.token_id # token_id
    /\ \E r \in refresh_tokens' :
          r.token_id = token_id /\ r.revoked_at = NoTime /\ r.user_id = resp'.user

\* C15: a login or refresh call that fails (RateLimitExceeded,
\* InvalidCredentials, AccountDeactivated, InvalidToken, TokenExpired,
\* UserNotFound) leaves the refresh_tokens table and every last_login_at as
\* they were; a call that succeeds has revoked the old record(s) and stored
\* the new one.
C15_AllOrNothing ==
    [][ resp'.op \in { "login", "refresh" } =>
          IF resp'.outcome # "ok"
          THEN refresh_tokens' = refresh_tokens /\ users' = users
          ELSE /\ StoredNew(resp'.new_id)
               /\ resp'.op = "login" =>
                     /\ \A r \in refresh_tokens :
                           r.user_id = resp'.user => Revoked(refresh_tokens', r.token_id)
                     /\ users'[resp'.user].last_login_at = now
               /\ resp'.op = "refresh" => Revoked(refresh_tokens', resp'.presented) ]_vars

\* a login was refused with AccountDeactivated while the user had a live record
C15_Witness ==
    /\ resp.op = "login"
    /\ resp.outcome = "AccountDeactivated"
    /\ \E r \in refresh_tokens : r.revoked_at = NoTime /\ ~(r.expires_at < now)

\* the record of token_id is live and its owner is missing or inactive
OwnerGone(token_id) ==
    \E r \in get_by_token_id(refresh_tokens, token_id) :
        /\ ~(r.expires_at < now)
        /\ \/ r.user_id \notin DOMAIN users
           \/ ~users[r.user_id].is_active

\* C20: refresh_access_token with a valid token and a non-revoked record
\* whose owner is missing or inactive fails with UserNotFound, issues no pair
\* and leaves the record as it was.
C20_OwnerGone ==
    [][ ( /\ resp'.op = "refresh"
          /\ \E t \in RefreshTokensOf({ resp'.presented }) :
                verify_refresh_token(t, now) = "ok"
          /\ OwnerGone(resp'.presented) )
        => /\ resp'.outcome = "UserNotFound"
           /\ UNCHANGED << refresh_tokens, issued, uuid_next >> ]_vars

\* refresh was refused with UserNotFound and the presented record is still live
C20_Witness ==
    /\ resp.op = "refresh"
    /\ resp.outcome = "UserNotFound"
    /\ OwnerGone(resp.presented)

\* a non-revoked record of token_id whose stored expires_at lies before now
StaleRecord(token_id) ==
    \E r \in get_by_token_id(refresh_tokens, token_id) : r.expires_at < now

NewAccessToken(user_id) ==
    create_access_token(user_id, users[user_id].phone_number,
                        users[user_id].is_active, users[user_id].company_id,
                        users[user_id].role, now)

\* C25: after a successful refresh the new record belongs to the owner of
\* the redeemed record, every token the call added carries that owner, and
\* get_current_user with the new access token returns that owner.
C25_PairBelongsToOwner ==
    [][ (resp'.op = "refresh" /\ resp'.outcome = "ok") =>
          \E old \in refresh_tokens :
              /\ old.token_id = resp'.presented
              /\ \E r \in refresh_tokens' :
                    r.token_id = resp'.new_id /\ r.user_id = old.user_id
              /\ \A t \in issued' \ issued : t.user_id = old.user_id
              /\ NewAccessToken(old.user_id) \in issued'
              /\ get_current_user(NewAccessToken(old.user_id), now)
                    = [ status |-> 200, detail |-> "", user |-> old.user_id ] ]_vars

\* u2 redeemed the token of its login: the redeemed record is revoked, the new
\* one is live, and both are owned by u2
C25_Witness ==
    /\ resp.op = "refresh"
    /\ resp.outcome = "ok"
    /\ \E r \in refresh_tokens :
          r.token_id = resp.new_id /\ r.user_id = "u2" /\ r.revoked_at = NoTime
    /\ \E r \in refresh_tokens :
          r.token_id = resp.presented /\ r.user_id = "u2" /\ r.revoked_at # NoTime

-----------------------------------------------------------------------------
(* Claims on the token types *)

\* no handler takes token for a token of the other type: get_current_user
\* refuses a refresh token; refresh and logout refuse an access token and
\* leave the table alone
NeverAccepted(token) ==
    /\ token.type = "refresh" => get_current_user(token, now).status = 401
    /\ token.type = "access" =>
          /\ refresh_outcome(refresh_tokens, token, now) # "ok"
          /\ logout_table(refresh_tokens, token, now) = refresh_tokens

\* C30 (original): verify_access_token rejects every refresh token and
\* verify_refresh_token rejects every access token with InvalidToken; no
\* refresh token authenticates a request and no access token is taken by
\* refresh or logout.
C30_WrongTypeInvalidToken ==
    \A token \in issued :
        /\ token.type = "refresh" => verify_access_token(token, now) = "InvalidToken"
        /\ token.type = "access" => verify_refresh_token(token, now) = "InvalidToken"
        /\ NeverAccepted(token)

\* C30 (amended): each verifier rejects every token of the other type, with
\* InvalidToken while the token's signed expiry has not passed and with
\* TokenExpired afterwards; no refresh token authenticates a request and no
\* access token is taken by refresh or logout.
C30_WrongTypeRejected ==
    \A token \in issued :
        /\ token.type = "refresh" => verify_access_token(token, now) = SpentFailure(token)
        /\ token.type = "access" => verify_refresh_token(token, now) = SpentFailure(token)
        /\ NeverAccepted(token)

\* a request presented an unexpired refresh token of an active user as its
\* credentials and was refused
C30_Witness ==
    /\ resp.op = "get_current_user"
    /\ resp.outcome = "401"
    /\ resp.presented \in issued
    /\ resp.presented.type = "refresh"
    /\ resp.presented.exp > now
    /\ resp.presented.user_id \in DOMAIN users
    /\ users[resp.presented.user_id].is_active

-----------------------------------------------------------------------------
(* Claims on signup and change_password *)

\* C28: a signup made while no user is stored creates an active user with
\* role system_admin and no company; a signup made while a user is stored
\* fails and creates neither a user nor a refresh-token record.
C28_BootstrapSignup ==
    [][ resp'.op = "signup" =>
          IF DOMAIN users = {}
          THEN resp'.outcome = "ok" =>
                  /\ users'[resp'.user].is_active
                  /\ users'[resp'.user].role = "system_admin"
                  /\ users'[resp'.user].company_id = "null"
          ELSE /\ resp'.outcome # "ok"
               /\ UNCHANGED << users, refresh_tokens >> ]_vars

\* C29 (original): after a successful change_password of a user, refresh with
\* any refresh token issued to that user before the change fails with
\* InvalidToken.
C29_ChangedInvalidToken ==
    \A t \in RefreshTokensOf(password_changed) :
        refresh_outcome(refresh_tokens, t, now) = "InvalidToken"

\* C29 (amended): after a successful change_password every such refresh
\* fails: with InvalidToken while the token's signed expiry has not passed,
\* with TokenExpired afterwards.
C29_ChangedNeverAgain ==
    \A t \in RefreshTokensOf(password_changed) :
        refresh_outcome(refresh_tokens, t, now) = SpentFailure(t)

\* a token issued before the password was changed was presented to refresh
\* and refused, although nobody had redeemed it
C29_Witness ==
    /\ resp.op = "refresh"
    /\ resp.outcome = "InvalidToken"
    /\ resp.presented \in password_changed
    /\ resp.presented \notin redeemed

-----------------------------------------------------------------------------
(* Claims on stored identities *)

\* C16: after any sequence of create_user and update_user calls every stored
\* user has role system_admin if and only if its company_id is null.
C16_RoleCompanyInvariant ==
    \A u \in DOMAIN users :
        (users[u].role = "system_admin") <=> (users[u].company_id = "null")

-----------------------------------------------------------------------------
(* Claims on the company context *)

\* C17: constructing a CompanyContext fails with HTTP 500 exactly when the
\* identity is not system_admin and has no company_id; for every other
\* identity it succeeds.
C17_ContextConstruction ==
    answer.op = "company_context" =>
        answer.status = IF NonAdmin /\ subject.company_id = "null" THEN 500 ELSE 200

\* the construction has just failed for a non-admin without a company
C17_Witness ==
    /\ answer.op = "company_context"
    /\ NonAdmin /\ subject.company_id = "null"
    /\ answer.status = 500

\* C18: get_company_id_for_create returns the identity's own company for
\* every non-admin identity and fails with HTTP 400 for every system_admin
\* identity.
C18_CompanyIdForCreate ==
    answer.op = "get_company_id_for_create" =>
        /\ NonAdmin => answer.status = 200 /\ answer.value = subject.company_id
        /\ PlatformAdmin => answer.status = 400

-----------------------------------------------------------------------------
(* Claims on password strength *)

UppercaseLetters == { "A", "U+00C9" }
LowercaseLetters == { "a", "U+00E9" }
DecimalDigits == { "1", "U+0663" }

LengthOk(password) ==
    Len(password) >= PASSWORD_MIN_LENGTH /\ Len(password) <= PASSWORD_MAX_LENGTH

====
